---- MODULE Spec2Model ----
(***************************************************************************)
(* State container, reduction and Hold workflow of one conductor node.    *)
(*                                                                         *)
(* The node under study is the receiving node ("bob"); the author of the  *)
(* entries delivered over the network ("alice") is environment.           *)
(***************************************************************************)
EXTENDS Integers, Sequences, FiniteSets, TLC

VARIABLES
    state,          \* the current State snapshot (core/src/state.rs, struct State)
    storage,        \* the storages of the Context, shared through Arc<RwLock<..>>
    sent,           \* messages handed to the network transport by NetSend::send
    networks,       \* number of P2pNetwork objects created so far
    action_channel, \* ActionWrappers dispatched and not yet taken by the reduction loop
    reducing,       \* the reduction in flight: None or [aw, base]
    next_id,        \* next fresh ActionWrapper identity
    dispatched,     \* every ActionWrapper put on the action channel so far
    redispatches,   \* number of re-dispatches of an already dispatched wrapper
    reader,         \* a reader holding a snapshot: None or [snapshot, seen]
    wf,             \* the workflow threads spawned by the network bridge
    context_log,    \* what was logged through Context::log
    bridge,         \* the thread of the network bridge that calls the handlers
    runtime,        \* the Runtime of the zome call a sandboxed module is run in
    caller,         \* the thread of the application that calls the node's workflows
    faults,         \* the operations that fail on storages of the Context
    server          \* the StaticServer of a UI interface and the threads it spawned

vars == <<state, storage, sent, networks, action_channel, reducing, next_id,
          dispatched, redispatches, reader, wf, context_log, bridge, runtime,
          caller, faults, server>>

--------------------------------------------------------------------------
(* Bounds of the model *)

MaxDispatch == 2
MaxRedispatch == 1
MaxWorkflows == 2
MaxInbound == 2
MaxRows == 3
MaxMemory == 10
MaxInvoke == 3
MaxWrite == 1
MaxAuthor == 2
MaxGet == 2
MaxAdd == 2
MaxUpdate == 1
MaxRemove == 1
\* the calls of start and stop on a static file server
MaxCalls == 4

--------------------------------------------------------------------------
(* Values *)

\* Option: None, or Some(x) holding x as its one element
None == <<>>
Some(x) == <<x>>

\* Result
Ok(value) == [ok |-> value]
Err(error) == [err |-> error]
IsErr(result) == "err" \in DOMAIN result

\* HolochainError
ErrorGeneric(msg) == [kind |-> "ErrorGeneric", msg |-> msg]
ValidationFailed(reason) == [kind |-> "ValidationFailed", msg |-> reason]

\* an operation of a storage of the Context that returns an error
Fault(store, op) == [store |-> store, op |-> op]

\* content addressing: the address of a content is its hash
Address(content) == [hash |-> content]

\* Entry::App with its value
App(value) == [app |-> value]

Entries == {App("entry1"), App("entry2")}

\* CrudStatus as a metadata value
CrudStatus(status) == [status |-> status]

AgentA == "alice"
AgentB == "bob"

\* the header under which the author committed the entry on its own chain
AuthorHeader(entry) ==
    [entry_address |-> Address(entry), link |-> None, provenance |-> AgentA]

EntryWithHeader(entry) == [entry |-> entry, header |-> AuthorHeader(entry)]

\* the link between two entries that link entries are about
Link == [base |-> Address(App("entry1")), target |-> Address(App("entry2")),
         tag |-> "tag"]

\* Entry::LinkAdd and Entry::LinkRemove
LinkAdd(link) == [link_add |-> link]
LinkRemove(link) == [link_remove |-> link]

\* Entry::Deletion(DeletionEntry::new(address))
Deletion(address) == [deletion |-> address]

\* crud_status::STATUS_NAME and crud_status::LINK_NAME
STATUS_NAME == "crud-status"
LINK_NAME == "crud-link"

NetworkSettings == [dna_address |-> "dna1", agent_id |-> AgentB]

Actions ==
    {[type |-> "InitNetwork", settings |-> NetworkSettings]}
    \cup {[type |-> "Hold", entry_with_header |-> EntryWithHeader(e)] : e \in Entries}
    \cup {[type |-> "Commit", entry |-> App("entry1")]}
    \cup {[type |-> "InitApplication", dna |-> "dna1"]}

\* the world outside the State struct that reducers act on
World ==
    [storage |-> storage, sent |-> sent, networks |-> networks, faults |-> faults]

--------------------------------------------------------------------------
(* Storages *)

\* ContentAddressableStorage::add into a store that keeps one content
CasAdd_single(cas, content) == {content}

\* ContentAddressableStorage::add: write-once, adding a present address is a no-op
CasAdd(cas, content) == cas \cup {content}

CasContains(cas, address) == \E c \in cas : Address(c) = address

\* EntityAttributeValueStorage::add_eavi: append a row with a later index
EavAdd(eav, entity, attribute, value) ==
    eav \cup {[entity |-> entity, attribute |-> attribute, value |-> value,
               index |-> Cardinality(eav) + 1]}

--------------------------------------------------------------------------
(* State::new *)

new ==
    [nucleus |-> [dna |-> None],
     agent   |-> [top_chain_header |-> None, chain_store |-> "chain_storage",
                  actions |-> {}],
     dht     |-> [content_storage |-> "dht_storage", meta_storage |-> "eav_storage",
                  actions |-> {}],
     network |-> [network |-> None, dna_address |-> None, agent_id |-> None],
     history |-> {}]

NewStorage ==
    [chain_storage |-> {}, dht_storage |-> {}, eav_storage |-> {}]

--------------------------------------------------------------------------
(* Slice reducers.  Each takes its own slice, the action and the world    *)
(* (the Context) and returns the new slice and the world after it.        *)

\* nucleus::reduce
nucleus_reduce(nucleus, aw, W) ==
    IF aw.action.type = "InitApplication"
    THEN [slice |-> [nucleus EXCEPT !.dna = Some(aw.action.dna)], world |-> W]
    ELSE [slice |-> nucleus, world |-> W]

\* agent::state::reduce: Commit writes the entry and a new header, linked to
\* the previous top header, into the chain store and moves the top; when the
\* chain store fails to write, nothing is added and the top stays; either
\* way the result is recorded under the action for the task that awaits it
agent_reduce(agent, aw, W) ==
    IF aw.action.type = "Commit"
    THEN LET entry  == aw.action.entry
             header == [entry_address |-> Address(entry),
                        link |-> IF agent.top_chain_header = None THEN None
                                 ELSE Some(Address(agent.top_chain_header[1])),
                        provenance |-> AgentB]
             cas    == W.storage[agent.chain_store]
             others == {a \in agent.actions : a.aw # aw}
         IN IF Fault(agent.chain_store, "add") \in W.faults
            THEN [slice |-> [agent EXCEPT !.actions =
                                 others \cup {[aw |-> aw,
                                               result |-> Err(ErrorGeneric("write failed"))]}],
                  world |-> W]
            ELSE [slice |-> [agent EXCEPT !.top_chain_header = Some(header),
                                          !.actions =
                                 others \cup {[aw |-> aw,
                                               result |-> Ok(Address(entry))]}],
                  world |-> [W EXCEPT !.storage[agent.chain_store] =
                                          CasAdd(CasAdd(cas, entry), header)]]
    ELSE [slice |-> agent, world |-> W]

\* dht::dht_reducers::reduce: Hold writes the entry and its header into the
\* content store and records CRUD status Live and the header in the metadata
\* store, through the storages the slice references; AddLink and RemoveLink
\* record the link, or its removal, under the base in the metadata store;
\* UpdateEntry marks an entry of the content store Modified and links it to
\* its new version; RemoveEntry marks a live entry of the content store
\* Deleted and links it to its deletion entry
dht_reduce(dht, aw, W) ==
    IF aw.action.type = "Hold"
    THEN LET entry  == aw.action.entry_with_header.entry
             header == aw.action.entry_with_header.header
             cas    == W.storage[dht.content_storage]
             eav    == W.storage[dht.meta_storage]
             eav1   == EavAdd(eav, Address(entry), "crud-status", CrudStatus("live"))
             eav2   == EavAdd(eav1, Address(entry), "entry-header", Address(header))
         IN [slice |-> dht,
             world |-> [W EXCEPT !.storage[dht.content_storage] =
                                     CasAdd(CasAdd(cas, entry), header),
                                 !.storage[dht.meta_storage] = eav2]]
    ELSE IF aw.action.type \in {"AddLink", "RemoveLink"}
    THEN LET link == aw.action.link
             eav  == W.storage[dht.meta_storage]
             attribute == IF aw.action.type = "AddLink" THEN "link__tag"
                          ELSE "removed_link__tag"
         IN [slice |-> dht,
             world |-> [W EXCEPT !.storage[dht.meta_storage] =
                                     EavAdd(eav, link.base, attribute, link.target)]]
    ELSE IF aw.action.type = "UpdateEntry"
    THEN LET old_address == aw.action.old_address
             new_address == aw.action.new_address
             cas  == W.storage[dht.content_storage]
             eav  == W.storage[dht.meta_storage]
             eav1 == EavAdd(eav, old_address, STATUS_NAME, CrudStatus("modified"))
             eav2 == EavAdd(eav1, old_address, LINK_NAME, new_address)
         IN IF ~CasContains(cas, old_address)
            THEN [slice |-> [dht EXCEPT !.actions =
                                 @ \cup {[aw |-> aw,
                                          result |-> Err(ErrorGeneric(
                                              "trying to update a missing entry"))]}],
                  world |-> W]
            ELSE [slice |-> [dht EXCEPT !.actions =
                                 @ \cup {[aw |-> aw, result |-> Ok(new_address)]}],
                  world |-> [W EXCEPT !.storage[dht.meta_storage] = eav2]]
    ELSE IF aw.action.type = "RemoveEntry"
    THEN LET deleted  == aw.action.deleted_address
             deletion == aw.action.deletion_address
             cas      == W.storage[dht.content_storage]
             eav      == W.storage[dht.meta_storage]
             rows     == {row \in eav : row.entity = deleted
                                         /\ row.attribute = STATUS_NAME}
             latest   == CHOOSE row \in rows :
                             \A other \in rows : other.index <= row.index
             eav1     == EavAdd(eav, deleted, STATUS_NAME, CrudStatus("deleted"))
             eav2     == EavAdd(eav1, deleted, LINK_NAME, deletion)
             failed(msg) ==
                 [slice |-> [dht EXCEPT !.actions =
                                 @ \cup {[aw |-> aw,
                                          result |-> Err(ErrorGeneric(msg))]}],
                  world |-> W]
         IN IF ~CasContains(cas, deleted) \/ rows = {}
            THEN failed("trying to remove a missing entry")
            ELSE IF latest.value # CrudStatus("live")
            THEN failed("entry_already_deleted")
            ELSE [slice |-> [dht EXCEPT !.actions =
                                 @ \cup {[aw |-> aw, result |-> Ok(deleted)]}],
                  world |-> [W EXCEPT !.storage[dht.meta_storage] = eav2]]
    ELSE [slice |-> dht, world |-> W]

\* network::reducers::init::reduce_init with the network handle stored as
\* soon as the P2pNetwork is created
reduce_init_handle_first(network_state, aw, W, send_ok) ==
    LET network_settings == aw.action.settings
        network == W.networks + 1
        message == [type |-> "TrackDna",
                    dna_address |-> network_settings.dna_address,
                    agent_id |-> network_settings.agent_id,
                    via |-> network]
        created == [W EXCEPT !.networks = network]
    IN IF send_ok
       THEN [slice |-> [network |-> Some(network),
                        dna_address |-> Some(network_settings.dna_address),
                        agent_id |-> Some(network_settings.agent_id)],
             world |-> [created EXCEPT !.sent = Append(W.sent, message)]]
       ELSE [slice |-> [network_state EXCEPT !.network = Some(network)],
             world |-> created]

\* network::reducers::init::reduce_init: a new P2pNetwork is created, TrackDna
\* is sent through it, and only when the send succeeded are the fields set
reduce_init(network_state, aw, W, send_ok) ==
    LET network_settings == aw.action.settings
        network == W.networks + 1
        message == [type |-> "TrackDna",
                    dna_address |-> network_settings.dna_address,
                    agent_id |-> network_settings.agent_id,
                    via |-> network]
        created == [W EXCEPT !.networks = network]
    IN IF send_ok
       THEN [slice |-> [network |-> Some(network),
                        dna_address |-> Some(network_settings.dna_address),
                        agent_id |-> Some(network_settings.agent_id)],
             world |-> [created EXCEPT !.sent = Append(W.sent, message)]]
       ELSE [slice |-> network_state, world |-> created]

\* network::reducers::reduce
network_reduce(network_state, aw, W, send_ok) ==
    IF aw.action.type = "InitNetwork"
    THEN reduce_init(network_state, aw, W, send_ok)
    ELSE [slice |-> network_state, world |-> W]

\* State::reduce, history dropped instead of cloned
reduce_forgets_history(S, aw, W, send_ok) ==
    LET n == nucleus_reduce(S.nucleus, aw, W)
        a == agent_reduce(S.agent, aw, n.world)
        d == dht_reduce(S.dht, aw, a.world)
        w == network_reduce(S.network, aw, d.world, send_ok)
    IN [state |-> [nucleus |-> n.slice, agent |-> a.slice, dht |-> d.slice,
                   network |-> w.slice, history |-> {aw}],
        world |-> w.world]

\* State::reduce, the agent reducer given the chain over the DHT's storage
reduce_shares_storage(S, aw, W, send_ok) ==
    LET n == nucleus_reduce(S.nucleus, aw, W)
        a == agent_reduce([S.agent EXCEPT !.chain_store = S.dht.content_storage],
                          aw, n.world)
        d == dht_reduce(S.dht, aw, a.world)
        w == network_reduce(S.network, aw, d.world, send_ok)
    IN [state |-> [nucleus |-> n.slice,
                   agent |-> [a.slice EXCEPT !.chain_store = S.agent.chain_store],
                   dht |-> d.slice,
                   network |-> w.slice, history |-> S.history \cup {aw}],
        world |-> w.world]

\* State::reduce: the four slices are reduced against the same action, each
\* from its own previous value, then the action is inserted into the history
reduce(S, aw, W, send_ok) ==
    LET n == nucleus_reduce(S.nucleus, aw, W)
        a == agent_reduce(S.agent, aw, n.world)
        d == dht_reduce(S.dht, aw, a.world)
        w == network_reduce(S.network, aw, d.world, send_ok)
    IN [state |-> [nucleus |-> n.slice, agent |-> a.slice, dht |-> d.slice,
                   network |-> w.slice, history |-> S.history \cup {aw}],
        world |-> w.world]

--------------------------------------------------------------------------
(* What a reader observes of a snapshot through its accessors *)

\* State::nucleus
ObserveNucleus(S, st) == S.nucleus

\* State::agent: the top header and the chain store it iterates
ObserveAgent(S, st) ==
    [top_chain_header |-> S.agent.top_chain_header,
     chain |-> st[S.agent.chain_store]]

\* State::dht: the content and metadata storages behind the slice
ObserveDht(S, st) ==
    [content |-> st[S.dht.content_storage], meta |-> st[S.dht.meta_storage]]

\* State::network
ObserveNetwork(S, st) == S.network

Observe(S, st) ==
    [nucleus |-> ObserveNucleus(S, st), agent |-> ObserveAgent(S, st),
     dht |-> ObserveDht(S, st), network |-> ObserveNetwork(S, st),
     history |-> S.history]

--------------------------------------------------------------------------
(* The Hold workflow: values and the steps of hold_entry_workflow *)

Workflows == 1..MaxWorkflows

\* what the author of an entry does with a validation package request:
\* it answers with the package, answers that it has none, the request fails,
\* or nothing ever comes back
AuthorBehaviours == {"package", "no_package", "error", "silent"}

\* network::actions::get_validation_package, once it resolves
get_validation_package(header, author) ==
    CASE author = "package"    -> Ok(Some([chain_header |-> header]))
      [] author = "no_package" -> Ok(None)
      [] author = "error"      -> Err(ErrorGeneric("network error"))

\* the validation callback of the DNA on this node
ValidEntries ==
    {App("entry1"), App("entry3"), LinkAdd(Link), LinkRemove(Link),
     Deletion(Address(App("entry1")))}

\* nucleus::actions::validate::validate_entry
validate_entry(entry, validation_data) ==
    IF entry \in ValidEntries THEN Ok(<<>>)
    ELSE Err(ValidationFailed("FAIL wat"))

\* a workflow thread that has not been spawned
IdleWorkflow ==
    [pc |-> "idle", workflow |-> "hold_entry", entry_with_header |-> None,
     author |-> "package",
     fetches |-> 0, package |-> None, validation_data |-> None,
     validation |-> None, hold_dispatched |-> FALSE, result |-> None]

\* hold_entry_workflow, a missing package reported as a failed validation
package_or_error_as_invalid(fetched) ==
    IF IsErr(fetched) THEN fetched
    ELSE IF fetched.ok = None
         THEN Err(ValidationFailed("Could not get validation package from source"))
         ELSE Ok(fetched.ok[1])

\* hold_entry_workflow step 1: the ? on the fetch, then ok_or(..)? on the package
package_or_error(fetched) ==
    IF IsErr(fetched) THEN fetched
    ELSE IF fetched.ok = None
         THEN Err(ErrorGeneric("Could not get validation package from source"))
         ELSE Ok(fetched.ok[1])

\* hold_entry_workflow step 2
ValidationData(package) ==
    [package |-> package, lifecycle |-> "Dht", action |-> "Create"]

\* hold_entry_workflow, going on to validation whatever the fetch gave
after_package_unchecked(t, fetched) ==
    LET r == package_or_error(fetched)
    IN IF IsErr(r)
       THEN [t EXCEPT !.pc = "validate_entry",
                      !.validation_data = Some(ValidationData(None))]
       ELSE [t EXCEPT !.pc = "validate_entry", !.package = Some(r.ok),
                      !.validation_data = Some(ValidationData(r.ok))]

\* hold_entry_workflow, holding the entry as soon as the package is there
after_package_skips_validation(t, fetched) ==
    LET r == package_or_error(fetched)
    IN IF IsErr(r)
       THEN [t EXCEPT !.pc = "returned", !.result = Some(r)]
       ELSE [t EXCEPT !.pc = "hold_entry", !.package = Some(r.ok)]

\* hold_entry_workflow steps 1 and 2: without a package the workflow returns
\* the error, with one it goes on to validate with the validation data
after_package(t, fetched) ==
    LET r == package_or_error(fetched)
    IN IF IsErr(r)
       THEN [t EXCEPT !.pc = "returned", !.result = Some(r)]
       ELSE [t EXCEPT !.pc = "validate_entry", !.package = Some(r.ok),
                      !.validation_data = Some(ValidationData(r.ok))]

\* hold_entry_workflow, the validation result not looked at
after_validate_ignores_error(t, validated) == [t EXCEPT !.pc = "hold_entry"]

\* hold_entry_workflow, returning the address without holding the entry
after_validate_returns(t, validated) ==
    IF IsErr(validated)
    THEN [t EXCEPT !.pc = "returned", !.result = Some(validated)]
    ELSE [t EXCEPT !.pc = "returned",
                   !.result = Some(Ok(Address(t.entry_with_header[1].entry)))]

\* hold_entry_workflow step 3: the ? on the validation, then hold_entry
after_validate(t, validated) ==
    IF IsErr(validated)
    THEN [t EXCEPT !.pc = "returned", !.result = Some(validated)]
    ELSE [t EXCEPT !.pc = "hold_entry"]

--------------------------------------------------------------------------
(* The ribosome: the values that cross the boundary to a sandboxed module *)

\* RibosomeErrorCode
ErrorCodes == {"Unspecified", "ArgumentDeserializationFailed", "OutOfMemory"}

\* a RibosomeErrorCode as the number in the upper half of the word
code_int(code) ==
    CASE code = "Unspecified" -> 1
      [] code = "ArgumentDeserializationFailed" -> 2
      [] code = "OutOfMemory" -> 3

\* RibosomeErrorCode::from_code_int: a number that is no code is Unspecified
from_code_int(i) ==
    IF \E code \in ErrorCodes : code_int(code) = i
    THEN CHOOSE code \in ErrorCodes : code_int(code) = i
    ELSE "Unspecified"

\* RibosomeEncodedValue
Success == [kind |-> "Success"]
Failure(code) == [kind |-> "Failure", code |-> code]
Allocation(offset, length) ==
    [kind |-> "Allocation", offset |-> offset, length |-> length]

\* a 64-bit word, written as its upper and lower 32 bits (u64_merge_bits)
Bits(high, low) == [high |-> high, low |-> low]

\* RibosomeEncodedValue::from(bits), an allocation told by its upper half
RibosomeEncodedValue_by_high(bits) ==
    IF bits = Bits(0, 0) THEN Success
    ELSE IF bits.high = 0 THEN Failure(from_code_int(bits.low))
    ELSE Allocation(bits.high, bits.low)

\* RibosomeEncodedValue::from(bits): zero is Success, a word with an empty
\* lower half is a failure code, any other word is an allocation
RibosomeEncodedValue(bits) ==
    IF bits = Bits(0, 0) THEN Success
    ELSE IF bits.low = 0 THEN Failure(from_code_int(bits.high))
    ELSE Allocation(bits.high, bits.low)

\* RibosomeEncodingBits::from(value)
RibosomeEncodingBits(value) ==
    CASE value.kind = "Success"    -> Bits(0, 0)
      [] value.kind = "Failure"    -> Bits(code_int(value.code), 0)
      [] value.kind = "Allocation" -> Bits(value.offset, value.length)

\* ribosome_error_code!(code): the word a host function returns for a failure
ribosome_error_code(code) == RibosomeEncodingBits(Failure(code))

\* WasmAllocation::try_from(ribosome_allocation): an allocation has a length
\* and lies inside the memory
WasmAllocation_try_from(allocation) ==
    IF allocation.length = 0 THEN Err("ZeroLength")
    ELSE IF allocation.offset + allocation.length > MaxMemory
    THEN Err("OutOfBounds")
    ELSE Ok(allocation)

\* WasmPageManager::new: the linear memory, zeroed, and the top of its stack
WasmPageManager == [bytes |-> [i \in 1..MaxMemory |-> 0], top |-> 0]

\* WasmPageManager::write: the bytes go on top of the stack
write(memory_manager, data) ==
    LET top == memory_manager.top
    IN IF Len(data) = 0 THEN Err("ZeroLength")
       ELSE IF top + Len(data) > MaxMemory THEN Err("OutOfMemory")
       ELSE Ok([memory_manager |->
                    [bytes |-> [i \in 1..MaxMemory |->
                                   IF i > top /\ i <= top + Len(data)
                                   THEN data[i - top]
                                   ELSE memory_manager.bytes[i]],
                     top |-> top + Len(data)],
                allocation |-> Allocation(top, Len(data))])

\* WasmPageManager::read: the bytes of the allocation
read(memory_manager, allocation) ==
    [i \in 1..allocation.length |-> memory_manager.bytes[allocation.offset + i]]

\* String::from_utf8, for the bytes of the model: the byte 255 occurs in no
\* UTF-8 text
from_utf8(bytes) ==
    IF \A i \in 1..Len(bytes) : bytes[i] < 128 THEN Ok(bytes)
    ELSE Err("FromUtf8Error")

\* JsonString::null()
JsonNull == <<110, 117, 108, 108>>

\* JsonString::from(Address): the address as a JSON string, "1" of entry1
\* and "2" of entry2
AddressJson(address) ==
    IF address = Address(App("entry1")) THEN <<34, 49, 34>>
    ELSE IF address = Address(App("entry2")) THEN <<34, 50, 34>>
    ELSE <<34, 57, 34>>

\* Address::try_from(JsonString): a JSON string is an Address, anything else
\* is not
Address_try_from(json) ==
    LET n == Len(json)
    IN IF /\ n >= 2 /\ json[1] = 34 /\ json[n] = 34
          /\ \A i \in 2..(n - 1) : json[i] \notin {0, 34}
       THEN Ok(IF json = <<34, 49, 34>> THEN Address(App("entry1"))
               ELSE IF json = <<34, 50, 34>> THEN Address(App("entry2"))
               ELSE Address(App("other")))
       ELSE Err(ErrorGeneric("SerializationError"))

\* Runtime::load_json_string_from_args: the outcome is the JSON text, or a
\* panic of the thread that runs the module
load_json_string_from_args(memory_manager, encoded) ==
    LET return_code == RibosomeEncodedValue(encoded)
    IN IF return_code.kind = "Success" THEN [json |-> JsonNull]
       ELSE IF return_code.kind = "Failure"
       THEN [panic |-> "received error code instead of valid encoded allocation"]
       ELSE IF IsErr(WasmAllocation_try_from(return_code))
       THEN [panic |-> "called Result::unwrap() on an Err value"]
       ELSE LET bin_arg == read(memory_manager, return_code)
            IN IF IsErr(from_utf8(bin_arg))
               THEN [panic |-> "called Result::unwrap() on an Err value"]
               ELSE [json |-> bin_arg]

\* ZomeApiInternalResult::success(value) and ::failure(error) as JSON text,
\* shortened to the bytes that tell them apart: "ok" and "er"
ZomeApiInternalResult(result) ==
    IF IsErr(result) THEN <<101, 114>> ELSE <<111, 107>>

\* Runtime::store_as_json_string with the text written as it is
store_as_json_string_unterminated(memory_manager, json) ==
    LET written == write(memory_manager, json)
    IN IF IsErr(written)
       THEN [memory_manager |-> memory_manager,
             bits |-> ribosome_error_code("Unspecified")]
       ELSE [memory_manager |-> written.ok.memory_manager,
             bits |-> RibosomeEncodingBits(written.ok.allocation)]

\* Runtime::store_as_json_string with a failed write returned as what the
\* memory manager said
store_as_json_string_out_of_memory(memory_manager, json) ==
    LET s_bytes == Append(json, 0)
        written == write(memory_manager, s_bytes)
    IN IF IsErr(written)
       THEN [memory_manager |-> memory_manager,
             bits |-> ribosome_error_code(written.err)]
       ELSE [memory_manager |-> written.ok.memory_manager,
             bits |-> RibosomeEncodingBits(written.ok.allocation)]

\* Runtime::store_as_json_string: the text and a terminating zero byte are
\* written to the memory; the outcome is the memory and the returned word
store_as_json_string(memory_manager, json) ==
    LET s_bytes == Append(json, 0)
        written == write(memory_manager, s_bytes)
    IN IF IsErr(written)
       THEN [memory_manager |-> memory_manager,
             bits |-> ribosome_error_code("Unspecified")]
       ELSE [memory_manager |-> written.ok.memory_manager,
             bits |-> RibosomeEncodingBits(written.ok.allocation)]

\* Runtime::store_result with every result stored as a success
store_result_as_success(memory_manager, result) ==
    store_as_json_string(memory_manager, ZomeApiInternalResult(Ok(<<>>)))

\* Runtime::store_result
store_result(memory_manager, result) ==
    store_as_json_string(memory_manager, ZomeApiInternalResult(result))

\* ZomeApiFunction::from_index: the index of the host-function table, any
\* index outside the table is MissingNo
from_index(index) ==
    IF index = 6 THEN "RemoveEntry" ELSE "MissingNo"

\* the Runtime of a zome call whose module has called no host function yet
NewRuntime ==
    [memory_manager |-> WasmPageManager,
     pc |-> "module",
     invoked |-> 0,
     written |-> {},
     index |-> None,
     zf |-> None,
     args |-> None,
     address |-> None,
     deletion_entry |-> None,
     validation |-> None,
     validated |-> None,
     commit |-> None,
     remove |-> None,
     result |-> None,
     returned |-> <<>>,
     stored |-> <<>>]

\* the application's thread before it has called anything
NewCaller ==
    [pc |-> "idle",
     entry |-> None,
     awaits |-> None,
     authored |-> {},
     calls |-> 0,
     result |-> None,
     gets |-> 0,
     got |-> None,
     linked |-> {},
     links |-> None]

--------------------------------------------------------------------------
(* The static file server of a UI interface *)

\* StaticServer::from_configs: no shutdown signal, not running
from_configs == [shutdown_signal |-> None, running |-> FALSE]

\* a UI interface before any call: its StaticServer as constructed, no thread
\* spawned, no message in a channel, no call returned. The channel that a
\* start creates and the thread it spawns bear the same number
ServerInit ==
    [static_server |-> from_configs, threads |-> <<>>, messages |-> {},
     calls |-> 0, result |-> None]

\* the receiver of the channel is alive: the thread that owns it has not
\* ended and has not panicked
Connected(threads, tx) == threads[tx] \in {"spawned", "waiting"}

\* StaticServer::start: the sender of a new channel becomes the shutdown
\* signal, in place of any earlier one, and the server is marked running
start(self, tx) ==
    [server |-> [self EXCEPT !.shutdown_signal = Some(tx), !.running = TRUE],
     result |-> Ok("unit")]

\* StaticServer::stop that takes the server for stopped whatever the send
\* returned
stop_ignoring_send(self, threads) ==
    IF self.shutdown_signal = None
    THEN [server |-> self, sent |-> None,
          result |-> Err(ErrorGeneric("server is already stopped"))]
    ELSE LET shutdown_signal == self.shutdown_signal[1]
         IN [server |-> [self EXCEPT !.running = FALSE, !.shutdown_signal = None],
             sent   |-> IF Connected(threads, shutdown_signal)
                        THEN Some(shutdown_signal) ELSE None,
             result |-> Ok("unit")]

\* StaticServer::stop: with a shutdown signal, a unit is sent through it; a
\* send to a channel whose receiver is gone is an error that is returned
\* before anything is changed; after a send that succeeded the server is
\* marked not running and the signal dropped. With no signal it is an error
stop(self, threads) ==
    IF self.shutdown_signal = None
    THEN [server |-> self, sent |-> None,
          result |-> Err(ErrorGeneric("server is already stopped"))]
    ELSE LET shutdown_signal == self.shutdown_signal[1]
         IN IF ~Connected(threads, shutdown_signal)
            THEN [server |-> self, sent |-> None,
                  result |-> Err(ErrorGeneric("sending on a closed channel"))]
            ELSE [server |-> [self EXCEPT !.running = FALSE,
                                          !.shutdown_signal = None],
                  sent   |-> Some(shutdown_signal),
                  result |-> Ok("unit")]

\* a call of start on the server of the interface: the thread of the new
\* server is spawned and the call returns
StartServer ==
    /\ server.calls < MaxCalls
    /\ LET tx      == Len(server.threads) + 1
           started == start(server.static_server, tx)
       IN server' = [server EXCEPT
                        !.static_server = started.server,
                        !.threads = Append(@, "spawned"),
                        !.calls = @ + 1,
                        !.result = Some([call |-> "start",
                                         returned |-> started.result])]
    /\ UNCHANGED <<state, storage, sent, networks, action_channel, reducing,
                   next_id, dispatched, redispatches, reader, wf, context_log,
                   bridge, runtime, caller, faults>>

\* a call of stop on the server of the interface
StopServer ==
    /\ server.calls < MaxCalls
    /\ LET stopped == stop(server.static_server, server.threads)
       IN server' = [server EXCEPT
                        !.static_server = stopped.server,
                        !.messages = IF stopped.sent = None THEN @
                                     ELSE @ \cup {stopped.sent[1]},
                        !.calls = @ + 1,
                        !.result = Some([call |-> "stop",
                                         returned |-> stopped.result])]
    /\ UNCHANGED <<state, storage, sent, networks, action_channel, reducing,
                   next_id, dispatched, redispatches, reader, wf, context_log,
                   bridge, runtime, caller, faults>>

\* the spawned thread up to its recv: Server::bind panics when the address
\* cannot be bound and Runtime::new().unwrap() when no runtime can be made;
\* the thread then ends and drops the receiver. Otherwise the server is
\* serving and the thread waits for the shutdown signal
ServerThreadServe(thread, served) ==
    /\ thread \in 1..Len(server.threads)
    /\ server.threads[thread] = "spawned"
    /\ server' = [server EXCEPT
                     !.threads[thread] = IF served THEN "waiting" ELSE "panicked"]
    /\ UNCHANGED <<state, storage, sent, networks, action_channel, reducing,
                   next_id, dispatched, redispatches, reader, wf, context_log,
                   bridge, runtime, caller, faults>>

\* the recv of the spawned thread returns, with the unit that a stop sent or
\* with an error when the server holds the sender no more, and the thread
\* ends, its server with it
ServerThreadRecv(thread) ==
    /\ thread \in 1..Len(server.threads)
    /\ server.threads[thread] = "waiting"
    /\ \/ thread \in server.messages
       \/ server.static_server.shutdown_signal # Some(thread)
    /\ server' = [server EXCEPT !.threads[thread] = "ended",
                                !.messages = @ \ {thread}]
    /\ UNCHANGED <<state, storage, sent, networks, action_channel, reducing,
                   next_id, dispatched, redispatches, reader, wf, context_log,
                   bridge, runtime, caller, faults>>

--------------------------------------------------------------------------
(* The action channel and the reduction loop *)

Init ==
    /\ state = new
    /\ storage = NewStorage
    /\ sent = <<>>
    /\ networks = 0
    /\ action_channel = <<>>
    /\ reducing = None
    /\ next_id = 1
    /\ dispatched = {}
    /\ redispatches = 0
    /\ reader = None
    /\ wf = [w \in Workflows |-> IdleWorkflow]
    /\ context_log = <<>>
    /\ bridge = [joins |-> None, panicked |-> FALSE, handled |-> 0, last |-> None]
    /\ runtime = NewRuntime
    /\ caller = NewCaller
    /\ faults = {}
    /\ server = ServerInit

\* a task wraps an action (ActionWrapper::new gives it a fresh identity) and
\* puts it on the action channel
Dispatch(action) ==
    /\ next_id <= MaxDispatch
    /\ LET aw == [id |-> next_id, action |-> action]
       IN /\ action_channel' = Append(action_channel, aw)
          /\ dispatched' = dispatched \cup {aw}
    /\ next_id' = next_id + 1
    /\ UNCHANGED <<state, storage, sent, networks, reducing, redispatches, reader,
                   wf, context_log, bridge, runtime, caller, faults, server>>

\* a task puts a wrapper that was dispatched before on the channel again
Redispatch(aw) ==
    /\ redispatches < MaxRedispatch
    /\ aw \in dispatched
    /\ action_channel' = Append(action_channel, aw)
    /\ redispatches' = redispatches + 1
    /\ UNCHANGED <<state, storage, sent, networks, reducing, next_id, dispatched,
                   reader, wf, context_log, bridge, runtime, caller,
                   faults, server>>

\* the loop takes the next wrapper and reads the current state
ReduceBegin ==
    /\ reducing = None
    /\ action_channel # <<>>
    /\ reducing' = Some([aw |-> Head(action_channel), base |-> state])
    /\ action_channel' = Tail(action_channel)
    /\ UNCHANGED <<state, storage, sent, networks, next_id, dispatched,
                   redispatches, reader, wf, context_log, bridge, runtime,
            caller, faults, server>>

\* the loop replaces the state by the reduced one
ReduceEnd(send_ok) ==
    /\ reducing # None
    /\ LET r == reduce(reducing[1].base, reducing[1].aw, World, send_ok)
       IN /\ state' = r.state
          /\ storage' = r.world.storage
          /\ sent' = r.world.sent
          /\ networks' = r.world.networks
    /\ reducing' = None
    /\ UNCHANGED <<action_channel, next_id, dispatched, redispatches, reader, wf,
                   context_log, bridge, runtime, caller, faults, server>>

\* a reader takes the current snapshot (Context::state) and looks at it
TakeSnapshot ==
    /\ reader = None
    /\ reader' = Some([snapshot |-> state, seen |-> Observe(state, storage)])
    /\ UNCHANGED <<state, storage, sent, networks, action_channel, reducing,
                   next_id, dispatched, redispatches, wf, context_log, bridge,
                   runtime, caller, faults, server>>

Next ==
    \/ \E action \in Actions : Dispatch(action)
    \/ \E aw \in dispatched : Redispatch(aw)
    \/ ReduceBegin
    \/ \E send_ok \in BOOLEAN : ReduceEnd(send_ok)
    \/ TakeSnapshot

Spec == Init /\ [][Next]_vars

\* the same reductions with no reader looking on
NextReduce ==
    \/ \E action \in Actions : Dispatch(action)
    \/ \E aw \in dispatched : Redispatch(aw)
    \/ ReduceBegin
    \/ \E send_ok \in BOOLEAN : ReduceEnd(send_ok)

SpecReduce == Init /\ [][NextReduce]_vars

--------------------------------------------------------------------------
(* Queries on a snapshot *)

\* ContentAddressableStorage::fetch: the content stored under the address
CasFetch(cas, address) ==
    IF CasContains(cas, address)
    THEN Some(CHOOSE c \in cas : Address(c) = address)
    ELSE None

RECURSIVE chain_from(_, _)
\* ChainStore::iter: the headers from the given one back along the links
chain_from(maybe_header, cas) ==
    IF maybe_header = None THEN <<>>
    ELSE LET header == maybe_header[1]
         IN <<header>> \o
            chain_from(IF header.link = None THEN None
                       ELSE CasFetch(cas, header.link[1]), cas)

\* AgentState::iter_chain: the local chain, newest header first
iter_chain(S, st) == chain_from(S.agent.top_chain_header, st[S.agent.chain_store])

--------------------------------------------------------------------------
(* Queries a workflow or a caller makes on the current state *)

\* the latest CRUD status row of the address in the metadata store
crud_status(S, st, address) ==
    LET rows == {row \in st[S.dht.meta_storage] :
                    row.entity = address /\ row.attribute = "crud-status"}
    IN IF rows = {} THEN None
       ELSE Some((CHOOSE row \in rows :
                     \A other \in rows : other.index <= row.index).value.status)

\* the latest CRUD link row of the address in the metadata store
crud_link(S, st, address) ==
    LET rows == {row \in st[S.dht.meta_storage] :
                    row.entity = address /\ row.attribute = LINK_NAME}
    IN IF rows = {} THEN None
       ELSE Some((CHOOSE row \in rows :
                     \A other \in rows : other.index <= row.index).value)

\* Get: the entry from the local chain store, else from the DHT content
\* store, with its CRUD status; None when absent
get_entry(S, st, address) ==
    LET local  == CasFetch(st[S.agent.chain_store], address)
        held   == CasFetch(st[S.dht.content_storage], address)
        entry  == IF local # None THEN local ELSE held
        status == crud_status(S, st, address)
    IN IF entry = None \/ status = None THEN None
       ELSE Some([entry |-> entry[1], crud_status |-> status[1]])

--------------------------------------------------------------------------
(* State::get_headers *)

\* the headers of a sequence that are about the entry
RECURSIVE about(_, _)
about(headers, entry_address) ==
    IF headers = <<>> THEN <<>>
    ELSE (IF Head(headers).entry_address = entry_address
          THEN <<Head(headers)>> ELSE <<>>)
         \o about(Tail(headers), entry_address)

\* the rows of a query result as the sequence the caller iterates
RECURSIVE in_index_order(_)
in_index_order(rows) ==
    IF rows = {} THEN <<>>
    ELSE LET first == CHOOSE row \in rows : \A other \in rows : row.index <= other.index
         IN <<first>> \o in_index_order(rows \ {first})

\* EntityAttributeValueStorage::fetch_eavi for the query (entity, attribute,
\* any value, IndexFilter::LatestByAttribute): of the rows of the entity and
\* attribute, the latest one of each value
fetch_eavi(eav, entity, attribute) ==
    in_index_order({row \in eav :
        /\ row.entity = entity /\ row.attribute = attribute
        /\ \A other \in eav :
              (other.entity = entity /\ other.attribute = attribute
                 /\ other.value = row.value) => other.index <= row.index})

\* ChainHeader::try_from_content
try_from_content(content) ==
    IF {"entry_address", "link", "provenance"} \subseteq DOMAIN content
    THEN Ok(content)
    ELSE Err(ErrorGeneric("content is no ChainHeader"))

\* get_headers, the DHT part: of the rows found, the values that are not the
\* address of a header already taken from the chain are fetched from the
\* content store; what is absent there is left out, what is there is decoded,
\* and the first content that is no header makes the whole an error
RECURSIVE dht_headers(_, _, _)
dht_headers(rows, header_addresses, cas) ==
    IF rows = <<>> THEN Ok(<<>>)
    ELSE LET a    == Head(rows).value
             rest == dht_headers(Tail(rows), header_addresses, cas)
         IN IF a \in header_addresses \/ CasFetch(cas, a) = None THEN rest
            ELSE LET header == try_from_content(CasFetch(cas, a)[1])
                 IN IF IsErr(header) THEN header
                    ELSE IF IsErr(rest) THEN rest
                    ELSE Ok(<<header.ok>> \o rest.ok)

\* get_headers with the headers of the DHT store put before the chain's
get_headers_dht_first(S, st, entry_address) ==
    LET headers == about(iter_chain(S, st), entry_address)
        header_addresses == {Address(headers[i]) : i \in 1..Len(headers)}
        found == dht_headers(fetch_eavi(st[S.dht.meta_storage], entry_address,
                                        "entry-header"),
                             header_addresses, st[S.dht.content_storage])
    IN IF IsErr(found) THEN found ELSE Ok(found.ok \o headers)

\* get_headers with the DHT headers not checked against the chain's
get_headers_unfiltered(S, st, entry_address) ==
    LET headers == about(iter_chain(S, st), entry_address)
        found == dht_headers(fetch_eavi(st[S.dht.meta_storage], entry_address,
                                        "entry-header"),
                             {}, st[S.dht.content_storage])
    IN IF IsErr(found) THEN found ELSE Ok(headers \o found.ok)

\* get_headers with no more than one header taken from the DHT store
get_headers_one_from_dht(S, st, entry_address) ==
    LET headers == about(iter_chain(S, st), entry_address)
        header_addresses == {Address(headers[i]) : i \in 1..Len(headers)}
        found == dht_headers(fetch_eavi(st[S.dht.meta_storage], entry_address,
                                        "entry-header"),
                             header_addresses, st[S.dht.content_storage])
    IN IF IsErr(found) THEN found
       ELSE Ok(headers \o SubSeq(found.ok, 1, IF found.ok = <<>> THEN 0 ELSE 1))

\* get_headers that gives the headers of the chain alone when a content of
\* the DHT store is no header
get_headers_partial(S, st, entry_address) ==
    LET headers == about(iter_chain(S, st), entry_address)
        header_addresses == {Address(headers[i]) : i \in 1..Len(headers)}
        rows == IF Fault(S.dht.meta_storage, "fetch_eavi") \in faults
                THEN Err(ErrorGeneric("metadata query failed"))
                ELSE Ok(fetch_eavi(st[S.dht.meta_storage], entry_address,
                                   "entry-header"))
    IN IF IsErr(rows) THEN rows
       ELSE IF /\ Fault(S.dht.content_storage, "fetch") \in faults
               /\ \E i \in 1..Len(rows.ok) : rows.ok[i].value \notin header_addresses
       THEN Err(ErrorGeneric("content fetch failed"))
       ELSE LET found == dht_headers(rows.ok, header_addresses,
                                     st[S.dht.content_storage])
            IN IF IsErr(found) THEN Ok(headers) ELSE Ok(headers \o found.ok)

\* State::get_headers: the headers of the local chain about the entry, then
\* the headers the DHT metadata store records for it and the chain did not
\* already give. An error of the metadata query is returned as it is; the
\* contents are fetched before any is decoded, so an error of a fetch is
\* returned before an error of decoding
get_headers(S, st, entry_address) ==
    LET headers == about(iter_chain(S, st), entry_address)
        header_addresses == {Address(headers[i]) : i \in 1..Len(headers)}
        rows == IF Fault(S.dht.meta_storage, "fetch_eavi") \in faults
                THEN Err(ErrorGeneric("metadata query failed"))
                ELSE Ok(fetch_eavi(st[S.dht.meta_storage], entry_address,
                                   "entry-header"))
    IN IF IsErr(rows) THEN rows
       ELSE IF /\ Fault(S.dht.content_storage, "fetch") \in faults
               /\ \E i \in 1..Len(rows.ok) : rows.ok[i].value \notin header_addresses
       THEN Err(ErrorGeneric("content fetch failed"))
       ELSE LET found == dht_headers(rows.ok, header_addresses,
                                     st[S.dht.content_storage])
            IN IF IsErr(found) THEN found ELSE Ok(headers \o found.ok)

\* the header an agent makes for an entry as the first of its chain
\* (create_new_chain_header with no previous header)
HeaderBy(agent, entry) ==
    [entry_address |-> Address(entry), link |-> None, provenance |-> agent]

AgentC == "carol"

\* the headers that callers record for an entry in the DHT store
RecordedHeaders ==
    {[entry |-> App("entry1"), header |-> HeaderBy(agent, App("entry1"))] :
        agent \in {AgentA, AgentB, AgentC}}
    \cup {[entry |-> App("entry2"), header |-> HeaderBy(AgentA, App("entry2"))]}

\* DhtStore::add_header_for_entry, called on the DHT slice of the current
\* state: the header goes into the content store and a row from the entry to
\* the header's address into the metadata store
add_header_for_entry(entry, header) ==
    /\ Cardinality(storage[state.dht.meta_storage]) < MaxRows
    /\ storage' = [storage EXCEPT
                      ![state.dht.content_storage] = CasAdd(@, header),
                      ![state.dht.meta_storage] =
                          EavAdd(@, Address(entry), "entry-header", Address(header))]
    /\ UNCHANGED <<state, sent, networks, action_channel, reducing, next_id,
                   dispatched, redispatches, reader, wf, context_log, bridge,
                   runtime, caller, faults, server>>

\* add_eavi on the metadata store of the Context: a row alone, whatever the
\* content store holds
add_eavi(entity, attribute, value) ==
    /\ Cardinality(storage[state.dht.meta_storage]) < MaxRows
    /\ storage' = [storage EXCEPT
                      ![state.dht.meta_storage] = EavAdd(@, entity, attribute, value)]
    /\ UNCHANGED <<state, sent, networks, action_channel, reducing, next_id,
                   dispatched, redispatches, reader, wf, context_log, bridge,
                   runtime, caller, faults, server>>

\* the actions dispatched on a node whose headers are queried
HeaderActions ==
    {[type |-> "Commit", entry |-> App("entry1")],
     [type |-> "Hold", entry_with_header |-> EntryWithHeader(App("entry1"))]}

NextHeaders ==
    \/ \E action \in HeaderActions : Dispatch(action)
    \/ ReduceBegin
    \/ \E send_ok \in BOOLEAN : ReduceEnd(send_ok)
    \/ \E recorded \in RecordedHeaders :
          add_header_for_entry(recorded.entry, recorded.header)
    \/ \E recorded \in RecordedHeaders :
          add_eavi(Address(recorded.entry), "entry-header", Address(recorded.header))

SpecHeaders == Init /\ [][NextHeaders]_vars

\* the operations that the queries of get_headers use on the DHT stores
FetchOperations ==
    {Fault(state.dht.meta_storage, "fetch_eavi"),
     Fault(state.dht.content_storage, "fetch")}

\* an operation of a DHT store returns errors from now on
FetchFault(fault) ==
    /\ fault \notin faults
    /\ faults' = faults \cup {fault}
    /\ UNCHANGED <<state, storage, sent, networks, action_channel, reducing,
                   next_id, dispatched, redispatches, reader, wf, context_log,
                   bridge, runtime, caller, server>>

\* the values of the rows that callers add for an entry: the addresses of
\* headers and the address of the entry itself, whose content is no header
RowValues ==
    {Address(HeaderBy(AgentC, App("entry1"))), Address(App("entry1"))}

\* the headers that callers record with their content for the entry: one of
\* another agent and the one the node's own commit makes
FetchedHeaders ==
    {recorded \in RecordedHeaders :
        recorded.entry = App("entry1") /\ recorded.header.provenance # AgentC}

NextFetch ==
    \/ \E action \in HeaderActions : Dispatch(action)
    \/ ReduceBegin
    \/ \E send_ok \in BOOLEAN : ReduceEnd(send_ok)
    \/ \E recorded \in FetchedHeaders :
          add_header_for_entry(recorded.entry, recorded.header)
    \/ \E value \in RowValues :
          add_eavi(Address(App("entry1")), "entry-header", value)
    \/ \E fault \in FetchOperations : FetchFault(fault)

SpecFetch == Init /\ [][NextFetch]_vars

--------------------------------------------------------------------------
(* The network bridge and the Hold workflow threads *)

reduction_vars == <<state, storage, sent, networks, action_channel, reducing,
                    next_id, dispatched>>

\* the inbound StoreEntry message of an entry
StoreEntry(entry) == [type |-> "StoreEntry", entry_content |-> EntryWithHeader(entry)]

\* thread::spawn with the JoinHandle joined: the caller waits for the thread
thread_spawn_joined(w) == Some(w)

\* thread::spawn as the handlers call it: the JoinHandle is dropped, so the
\* caller waits for no thread
thread_spawn(w) == None

\* the bridge thread is in its receive loop: it did not panic, and a thread
\* it waits for, if any, has ended
BridgeFree ==
    /\ ~bridge.panicked
    /\ IF bridge.joins = None THEN TRUE ELSE wf[bridge.joins[1]].pc = "done"

\* handle_store_entry: the entry with its header is read from the message and
\* a thread is spawned that blocks on hold_entry_workflow; its first step asks
\* the author for the validation package
handle_store_entry(w, entry, author) ==
    /\ BridgeFree
    /\ wf[w].pc = "idle"
    /\ \A v \in 1..(w - 1) : wf[v].pc # "idle"
    /\ wf' = [wf EXCEPT ![w] =
                 [IdleWorkflow EXCEPT !.pc = "get_validation_package",
                                      !.entry_with_header = Some(EntryWithHeader(entry)),
                                      !.author = author,
                                      !.fetches = 1]]
    /\ bridge' = [bridge EXCEPT !.joins = thread_spawn(w),
                                !.handled = @ + 1,
                                !.last = Some(StoreEntry(entry))]
    /\ UNCHANGED <<reduction_vars, redispatches, reader, context_log, runtime, caller,
                   faults, server>>

\* one thread running every workflow: a workflow takes a step only when the
\* workflows spawned before it have ended
can_step_in_turn(threads, w) == \A v \in 1..(w - 1) : threads[v].pc = "done"

\* thread::spawn and block_on: each workflow runs on its own thread, so it
\* takes its next step whatever the other workflows are doing
can_step(threads, w) == TRUE

\* the fetch of the validation package resolves and the workflow goes on
PackageFetched(w) ==
    /\ wf[w].pc = "get_validation_package"
    /\ can_step(wf, w)
    /\ wf[w].author # "silent"
    /\ wf' = [wf EXCEPT ![w] =
                 after_package(wf[w],
                     get_validation_package(wf[w].entry_with_header[1].header,
                                            wf[w].author))]
    /\ UNCHANGED <<reduction_vars, redispatches, reader, context_log, bridge, runtime,
            caller, faults, server>>

\* validate_entry resolves and the workflow goes on
Validate(w) ==
    /\ wf[w].pc = "validate_entry"
    /\ can_step(wf, w)
    /\ LET validated == validate_entry(wf[w].entry_with_header[1].entry,
                                       wf[w].validation_data[1])
       IN wf' = [wf EXCEPT ![w] =
                    after_validate([wf[w] EXCEPT !.validation = Some(validated)],
                                   validated)]
    /\ UNCHANGED <<reduction_vars, redispatches, reader, context_log, bridge, runtime,
            caller, faults, server>>

\* dht::actions::hold::hold_entry: the Hold action is dispatched
HoldDispatch(w) ==
    /\ wf[w].pc = "hold_entry"
    /\ can_step(wf, w)
    /\ LET aw == [id |-> next_id,
                  action |-> [type |-> "Hold",
                              entry_with_header |-> wf[w].entry_with_header[1]]]
       IN /\ action_channel' = Append(action_channel, aw)
          /\ dispatched' = dispatched \cup {aw}
    /\ next_id' = next_id + 1
    /\ wf' = [wf EXCEPT ![w].pc = "await_hold", ![w].hold_dispatched = TRUE]
    /\ UNCHANGED <<state, storage, sent, networks, reducing, redispatches, reader,
                   context_log, bridge, runtime, caller, faults, server>>

\* dht::actions::hold::hold_entry: the future resolves to the address once
\* the entry is in the DHT content store of the current state
HoldDone(w) ==
    /\ wf[w].pc = "await_hold"
    /\ can_step(wf, w)
    /\ LET address == Address(wf[w].entry_with_header[1].entry)
       IN /\ CasContains(storage[state.dht.content_storage], address)
          /\ wf' = [wf EXCEPT ![w].pc = "returned",
                              ![w].result = Some(Ok(address))]
    /\ UNCHANGED <<reduction_vars, redispatches, reader, context_log, bridge, runtime,
            caller, faults, server>>

\* the spawned closure, answering the sender when the workflow failed
thread_result_answers(result, log, out) ==
    IF IsErr(result)
    THEN [log  |-> Append(log, [prefix |-> "err/net/dht", error |-> result.err]),
          sent |-> Append(out, [type |-> "FailureResult", error |-> result.err])]
    ELSE [log |-> log, sent |-> out]

\* the spawned closure, the match on what block_on returned: an error is
\* logged; the log and what was sent over the network after it
thread_result(result, log, out) ==
    IF IsErr(result)
    THEN [log  |-> Append(log, [prefix |-> "err/net/dht", error |-> result.err]),
          sent |-> out]
    ELSE [log |-> log, sent |-> out]

\* handle_store_entry and handle_store_meta, the spawned thread: the workflow
\* returned, an error is logged, and the thread ends
ThreadEnd(w) ==
    /\ wf[w].pc = "returned"
    /\ can_step(wf, w)
    /\ LET r == thread_result(wf[w].result[1], context_log, sent)
       IN /\ context_log' = r.log
          /\ sent' = r.sent
    /\ wf' = [wf EXCEPT ![w].pc = "done"]
    /\ UNCHANGED <<state, storage, networks, action_channel, reducing, next_id,
                   dispatched, redispatches, reader, bridge, runtime, caller,
                   faults, server>>

NextHold ==
    \/ \E w \in Workflows, entry \in Entries, author \in AuthorBehaviours :
          handle_store_entry(w, entry, author)
    \/ \E w \in Workflows : PackageFetched(w)
    \/ \E w \in Workflows : Validate(w)
    \/ \E w \in Workflows : HoldDispatch(w)
    \/ \E w \in Workflows : HoldDone(w)
    \/ \E w \in Workflows : ThreadEnd(w)
    \/ ReduceBegin
    \/ \E send_ok \in BOOLEAN : ReduceEnd(send_ok)

SpecHold == Init /\ [][NextHold]_vars

\* the threads and the reduction loop keep running, and a request the author
\* reacts to resolves
FairHold ==
    /\ \A w \in Workflows :
          /\ WF_vars(PackageFetched(w))
          /\ WF_vars(Validate(w))
          /\ WF_vars(HoldDispatch(w))
          /\ WF_vars(HoldDone(w))
          /\ WF_vars(ThreadEnd(w))
    /\ WF_vars(ReduceBegin)
    /\ WF_vars(\E send_ok \in BOOLEAN : ReduceEnd(send_ok))

SpecHoldLive == Init /\ [][NextHold]_vars /\ FairHold

--------------------------------------------------------------------------
(* handle_store_meta and the link workflows it spawns *)

\* the inbound StoreMeta message: DhtMetaData
StoreMeta(entry_address, attribute, content_list) ==
    [type |-> "StoreMeta", entry_address |-> entry_address,
     attribute |-> attribute, content_list |-> content_list]

\* a content item that is no EntryWithHeader
Malformed == [malformed |-> "content"]

\* the StoreMeta messages the network delivers
MetaMessages ==
    {StoreMeta(Link.base, "link", content_list) :
        content_list \in {<<>>, <<EntryWithHeader(LinkAdd(Link))>>, <<Malformed>>,
                          <<EntryWithHeader(LinkAdd(Link)),
                            EntryWithHeader(LinkAdd(Link))>>}}
    \cup {StoreMeta(Link.base, "link_remove", content_list) :
        content_list \in {<<>>, <<EntryWithHeader(LinkRemove(Link))>>,
                          <<EntryWithHeader(LinkRemove(Link)),
                            EntryWithHeader(LinkRemove(Link))>>}}
    \cup {StoreMeta(Address(App("entry1")), STATUS_NAME, <<CrudStatus("deleted")>>),
          StoreMeta(Address(App("entry1")), LINK_NAME, <<Address(App("entry2"))>>),
          StoreMeta(Address(App("entry1")), "unknown", <<>>)}

\* serde_json::from_str::<EntryWithHeader>: None when the item is none
parse_entry_with_header(item) ==
    IF {"entry", "header"} \subseteq DOMAIN item THEN Some(item) ELSE None

\* handle_store_meta with the CRUD status held like a link
store_meta_workflow_holds_status(attribute) ==
    CASE attribute = "link"        -> Some("hold_link")
      [] attribute = "link_remove" -> Some("remove_link")
      [] attribute = STATUS_NAME   -> Some("hold_link")
      [] OTHER                     -> None

\* handle_store_meta with the two link arms taking the other's workflow
store_meta_workflow_swapped(attribute) ==
    CASE attribute = "link"        -> Some("remove_link")
      [] attribute = "link_remove" -> Some("hold_link")
      [] OTHER                     -> None

\* handle_store_meta, the match on the attribute: the workflow the arm spawns
store_meta_workflow(attribute) ==
    CASE attribute = "link"        -> Some("hold_link")
      [] attribute = "link_remove" -> Some("remove_link")
      [] OTHER                     -> None

\* handle_store_meta, the match on the attribute: the line the arm logs
store_meta_log(attribute) ==
    CASE attribute = "link" ->
            Some("HandleStoreMeta: got LINK. processing...")
      [] attribute = "link_remove" ->
            Some("HandleStoreMeta: got LINK REMOVAL. processing...")
      [] attribute = STATUS_NAME ->
            Some("HandleStoreMeta: got CRUD status. processing...")
      [] attribute = LINK_NAME ->
            Some("HandleStoreMeta: got CRUD LINK. processing...")
      [] OTHER -> None

\* handle_store_meta with the link arms reading the first item of a content
\* list of any length
handle_store_meta_first_item(w, dht_meta_data, author) ==
    /\ BridgeFree
    /\ bridge.handled < MaxInbound
    /\ LET attribute    == dht_meta_data.attribute
           content_list == dht_meta_data.content_list
           workflow     == store_meta_workflow(attribute)
           line         == store_meta_log(attribute)
           received     == [bridge EXCEPT !.handled = @ + 1,
                                          !.last = Some(dht_meta_data)]
       IN /\ context_log' = IF line = None THEN context_log
                            ELSE Append(context_log,
                                        [prefix |-> "debug/net/handle",
                                         line |-> line[1]])
          /\ IF workflow = None
             THEN /\ w = 1
                  /\ bridge' = received
                  /\ wf' = wf
             ELSE IF Len(content_list) < 1
             THEN /\ w = 1
                  /\ bridge' = [received EXCEPT !.panicked = TRUE]
                  /\ wf' = wf
             ELSE IF parse_entry_with_header(content_list[1]) = None
             THEN /\ w = 1
                  /\ bridge' = [received EXCEPT !.panicked = TRUE]
                  /\ wf' = wf
             ELSE /\ wf[w].pc = "idle"
                  /\ \A v \in 1..(w - 1) : wf[v].pc # "idle"
                  /\ bridge' = [received EXCEPT !.joins = thread_spawn(w)]
                  /\ wf' = [wf EXCEPT ![w] =
                               [IdleWorkflow EXCEPT
                                   !.pc = "link_get_validation_package",
                                   !.workflow = workflow[1],
                                   !.entry_with_header =
                                       parse_entry_with_header(content_list[1]),
                                   !.author = author,
                                   !.fetches = 1]]
    /\ UNCHANGED <<reduction_vars, redispatches, reader, runtime, caller,
                   faults, server>>

\* handle_store_meta: the arm of the attribute logs; a link arm asserts that
\* the content list has one item, reads the entry with its header from it and
\* spawns a thread that blocks on the link workflow; the other arms do no more
handle_store_meta(w, dht_meta_data, author) ==
    /\ BridgeFree
    /\ bridge.handled < MaxInbound
    /\ LET attribute    == dht_meta_data.attribute
           content_list == dht_meta_data.content_list
           workflow     == store_meta_workflow(attribute)
           line         == store_meta_log(attribute)
           received     == [bridge EXCEPT !.handled = @ + 1,
                                          !.last = Some(dht_meta_data)]
       IN /\ context_log' = IF line = None THEN context_log
                            ELSE Append(context_log,
                                        [prefix |-> "debug/net/handle",
                                         line |-> line[1]])
          /\ IF workflow = None
             THEN /\ w = 1
                  /\ bridge' = received
                  /\ wf' = wf
             ELSE IF Len(content_list) # 1
             THEN /\ w = 1
                  /\ bridge' = [received EXCEPT !.panicked = TRUE]
                  /\ wf' = wf
             ELSE IF parse_entry_with_header(content_list[1]) = None
             THEN /\ w = 1
                  /\ bridge' = [received EXCEPT !.panicked = TRUE]
                  /\ wf' = wf
             ELSE /\ wf[w].pc = "idle"
                  /\ \A v \in 1..(w - 1) : wf[v].pc # "idle"
                  /\ bridge' = [received EXCEPT !.joins = thread_spawn(w)]
                  /\ wf' = [wf EXCEPT ![w] =
                               [IdleWorkflow EXCEPT
                                   !.pc = "link_get_validation_package",
                                   !.workflow = workflow[1],
                                   !.entry_with_header =
                                       parse_entry_with_header(content_list[1]),
                                   !.author = author,
                                   !.fetches = 1]]
    /\ UNCHANGED <<reduction_vars, redispatches, reader, runtime, caller,
                   faults, server>>

\* a link workflow after its first step: without a package it returns the
\* error, with one it goes on to validate
link_after_package(t, fetched) ==
    LET r == package_or_error(fetched)
    IN IF IsErr(r)
       THEN [t EXCEPT !.pc = "returned", !.result = Some(r)]
       ELSE [t EXCEPT !.pc = "link_validate", !.package = Some(r.ok),
                      !.validation_data = Some(ValidationData(r.ok))]

\* the action a link workflow dispatches once the link entry is valid
link_action(t) ==
    IF t.workflow = "hold_link"
    THEN [type |-> "AddLink", link |-> t.entry_with_header[1].entry.link_add]
    ELSE [type |-> "RemoveLink", link |-> t.entry_with_header[1].entry.link_remove]

\* the metadata row the action of a link workflow leaves
link_recorded(t, S, st) ==
    LET link == link_action(t).link
    IN \E row \in st[S.dht.meta_storage] :
          /\ row.entity = link.base /\ row.value = link.target
          /\ row.attribute = IF t.workflow = "hold_link" THEN "link__tag"
                             ELSE "removed_link__tag"

\* a link workflow: the fetch of the validation package resolves
LinkPackageFetched(w) ==
    /\ wf[w].pc = "link_get_validation_package"
    /\ can_step(wf, w)
    /\ wf[w].author # "silent"
    /\ wf' = [wf EXCEPT ![w] =
                 link_after_package(wf[w],
                     get_validation_package(wf[w].entry_with_header[1].header,
                                            wf[w].author))]
    /\ UNCHANGED <<reduction_vars, redispatches, reader, context_log, bridge, runtime,
            caller, faults, server>>

\* a link workflow: the validation of the link entry resolves; a valid link
\* is handed to the DHT by dispatching its action
LinkValidate(w) ==
    /\ wf[w].pc = "link_validate"
    /\ can_step(wf, w)
    /\ LET validated == validate_entry(wf[w].entry_with_header[1].entry,
                                       wf[w].validation_data[1])
           aw == [id |-> next_id, action |-> link_action(wf[w])]
       IN IF IsErr(validated)
          THEN /\ wf' = [wf EXCEPT ![w].pc = "returned",
                                   ![w].validation = Some(validated),
                                   ![w].result = Some(validated)]
               /\ UNCHANGED <<action_channel, dispatched, next_id>>
          ELSE /\ wf' = [wf EXCEPT ![w].pc = "link_await",
                                   ![w].validation = Some(validated),
                                   ![w].hold_dispatched = TRUE]
               /\ action_channel' = Append(action_channel, aw)
               /\ dispatched' = dispatched \cup {aw}
               /\ next_id' = next_id + 1
    /\ UNCHANGED <<state, storage, sent, networks, reducing, redispatches, reader,
                   context_log, bridge, runtime, caller, faults, server>>

\* a link workflow: its action has been reduced and the workflow returns
LinkDone(w) ==
    /\ wf[w].pc = "link_await"
    /\ can_step(wf, w)
    /\ link_recorded(wf[w], state, storage)
    /\ wf' = [wf EXCEPT ![w].pc = "returned", ![w].result = Some(Ok(<<>>))]
    /\ UNCHANGED <<reduction_vars, redispatches, reader, context_log, bridge, runtime,
            caller, faults, server>>

\* the authors the bridge's messages come from
BridgeAuthors == {"package", "error", "silent"}

NextBridge ==
    \/ \E w \in Workflows, entry \in Entries, author \in BridgeAuthors :
          handle_store_entry(w, entry, author)
    \/ \E w \in Workflows, dht_meta_data \in MetaMessages,
          author \in BridgeAuthors :
          handle_store_meta(w, dht_meta_data, author)
    \/ \E w \in Workflows : PackageFetched(w)
    \/ \E w \in Workflows : Validate(w)
    \/ \E w \in Workflows : HoldDispatch(w)
    \/ \E w \in Workflows : HoldDone(w)
    \/ \E w \in Workflows : LinkPackageFetched(w)
    \/ \E w \in Workflows : LinkValidate(w)
    \/ \E w \in Workflows : LinkDone(w)
    \/ \E w \in Workflows : ThreadEnd(w)
    \/ ReduceBegin
    \/ \E send_ok \in BOOLEAN : ReduceEnd(send_ok)

SpecBridge == Init /\ [][NextBridge]_vars

--------------------------------------------------------------------------
(* Reduction: claims *)

ActionWrappers == {[id |-> i, action |-> a] : i \in 1..MaxDispatch, a \in Actions}

\* the result of a reduction as a reader of the new snapshot observes it,
\* with the messages sent so far
Outcome(r) == [seen |-> Observe(r.state, r.world.storage), sent |-> r.world.sent]

\* C1: re-dispatching an action is a no-op: for every reachable state S and
\* every ActionWrapper A, reduce(reduce(S, A), A) is observably identical to
\* reduce(S, A) in its four slices and its history, and the slice reducers
\* have no second effect (nothing more is sent)
C1_RedispatchIsNoOp ==
    \A aw \in ActionWrappers, send_ok \in BOOLEAN :
        LET once  == reduce(state, aw, World, send_ok)
            twice == reduce(once.state, aw, once.world, send_ok)
        IN Outcome(twice) = Outcome(once)

\* the effect of a wrapper's action is present in the state
EffectPresent(aw) ==
    CASE aw.action.type = "Hold" ->
            /\ CasContains(storage[state.dht.content_storage],
                           Address(aw.action.entry_with_header.entry))
            /\ \E row \in storage[state.dht.meta_storage] :
                  /\ row.entity = Address(aw.action.entry_with_header.entry)
                  /\ row.attribute = "crud-status"
      [] aw.action.type = "Commit" ->
            \E i \in 1..Len(iter_chain(state, storage)) :
                iter_chain(state, storage)[i].entry_address = Address(aw.action.entry)
      [] aw.action.type = "InitApplication" ->
            state.nucleus.dna = Some(aw.action.dna)
      [] aw.action.type = "InitNetwork" ->
            networks >= 1

C3_SnapshotNotMutated ==
    reader # None => Observe(reader[1].snapshot, storage) = reader[1].seen

Slices == {"nucleus", "agent", "dht", "network"}

\* a slice of a state as a reader observes it
SliceView(S, st, slice) ==
    CASE slice = "nucleus" -> ObserveNucleus(S, st)
      [] slice = "agent"   -> ObserveAgent(S, st)
      [] slice = "dht"     -> ObserveDht(S, st)
      [] slice = "network" -> ObserveNetwork(S, st)

\* another value of each slice, with the storage content it stands on
OtherHeader ==
    [entry_address |-> Address(App("entry2")), link |-> None, provenance |-> AgentB]

Other(S, W, slice) ==
    CASE slice = "nucleus" ->
            [state |-> [S EXCEPT !.nucleus = [dna |-> Some("dna2")]], world |-> W]
      [] slice = "agent" ->
            [state |-> [S EXCEPT !.agent.top_chain_header = Some(OtherHeader)],
             world |-> [W EXCEPT !.storage[S.agent.chain_store] =
                                     {App("entry2"), OtherHeader}]]
      [] slice = "dht" ->
            [state |-> S,
             world |-> [W EXCEPT !.storage[S.dht.content_storage] = {App("entry2")},
                                 !.storage[S.dht.meta_storage] = {}]]
      [] slice = "network" ->
            [state |-> [S EXCEPT !.network =
                           [network |-> Some(0), dna_address |-> Some("dna2"),
                            agent_id |-> Some(AgentA)]],
             world |-> W]

\* the state with every slice but the given one replaced by its other value
OthersReplaced(S, W, keep) ==
    LET n == IF keep = "nucleus" THEN [state |-> S, world |-> W]
             ELSE Other(S, W, "nucleus")
        a == IF keep = "agent" THEN n ELSE Other(n.state, n.world, "agent")
        d == IF keep = "dht" THEN a ELSE Other(a.state, a.world, "dht")
    IN IF keep = "network" THEN d ELSE Other(d.state, d.world, "network")

C5_HistoryGrows ==
    /\ state.history = {}
    /\ [][/\ state.history \subseteq state'.history
          /\ (reducing # None /\ reducing' = None) =>
                reducing[1].aw \in state'.history]_vars

\* C5 witness: a history that two reductions have built
C5_Witness ==
    /\ Cardinality(state.history) >= 2
    /\ reducing = None

--------------------------------------------------------------------------
(* Hold workflow: claims *)

EntryOf(w) == wf[w].entry_with_header[1].entry

ValidationFailedIn(w) == wf[w].validation # None /\ IsErr(wf[w].validation[1])

\* the DHT store of the current state holds nothing about the address
AbsentFromDht(address) ==
    /\ ~CasContains(storage[state.dht.content_storage], address)
    /\ \A row \in storage[state.dht.meta_storage] : row.entity # address

HoldDispatchedFor(entry) ==
    \E aw \in dispatched :
        aw.action.type = "Hold" /\ aw.action.entry_with_header.entry = entry

C7_StepsSequential ==
    /\ \A w \in Workflows :
          /\ (wf[w].pc = "validate_entry" \/ wf[w].validation # None) =>
                /\ wf[w].package # None
                /\ wf[w].package[1].chain_header = wf[w].entry_with_header[1].header
                /\ wf[w].validation_data = Some(ValidationData(wf[w].package[1]))
          /\ (wf[w].pc \in {"hold_entry", "await_hold"} \/ wf[w].hold_dispatched) =>
                wf[w].validation = Some(Ok(<<>>))
    /\ \A aw \in dispatched :
          aw.action.type = "Hold" =>
             \E w \in Workflows :
                 /\ wf[w].entry_with_header = Some(aw.action.entry_with_header)
                 /\ wf[w].validation = Some(Ok(<<>>))

\* C7 witness: a workflow went through package, validation and hold
C7_Witness ==
    \E w \in Workflows :
        /\ wf[w].pc = "done" /\ wf[w].hold_dispatched
        /\ wf[w].result = Some(Ok(Address(EntryOf(w))))

PackageUnavailableIn(w) ==
    /\ wf[w].pc \notin {"idle", "get_validation_package"}
    /\ wf[w].author \in {"no_package", "error"}

\* what a workflow that could not get the package did itself: it ended with
\* an error, never invoked validation or the hold action, and fetched once
EndedWithoutPackage(w) ==
    /\ wf[w].pc \in {"returned", "done"}
    /\ wf[w].result # None /\ IsErr(wf[w].result[1])
    /\ wf[w].package = None
    /\ wf[w].validation_data = None /\ wf[w].validation = None
    /\ ~wf[w].hold_dispatched
    /\ wf[w].fetches = 1

EntryAbsent(w) ==
    /\ AbsentFromDht(Address(EntryOf(w)))
    /\ get_entry(state, storage, Address(EntryOf(w))) = None

UnavailableErrors ==
    {ErrorGeneric("Could not get validation package from source"),
     ErrorGeneric("network error")}

\* C9: the outcome of a workflow whose validation package is unavailable is
\* distinct from the outcome of a failed validation: a Hold workflow that
\* could not get the package never reports ValidationFailed, and a failed
\* validation never reports unavailability
C9_OutcomesDistinct ==
    \A w \in Workflows :
        wf[w].result # None =>
            /\ wf[w].package = None =>
                  /\ IsErr(wf[w].result[1])
                  /\ wf[w].result[1].err.kind # "ValidationFailed"
                  /\ wf[w].result[1].err \in UnavailableErrors
            /\ ValidationFailedIn(w) =>
                  /\ wf[w].result[1].err.kind = "ValidationFailed"
                  /\ wf[w].result[1].err \notin UnavailableErrors
            /\ \A v \in Workflows :
                  (wf[w].package = None /\ ValidationFailedIn(v) /\ wf[v].result # None)
                     => wf[w].result # wf[v].result

\* C9 witness: one workflow ended without a package, another in a failed
\* validation
C9_Witness ==
    \E w, v \in Workflows :
        /\ wf[w].pc = "done" /\ wf[w].package = None
        /\ wf[v].pc = "done" /\ ValidationFailedIn(v)

\* C10: an entry committed by its author and delivered to this node as a
\* StoreEntry message is eventually retrievable here by Get with identical
\* content and CRUD status Live, provided the author answers the validation
\* package request and validation passes on this node
C10_Convergence ==
    \A w \in Workflows, entry \in Entries :
        (/\ wf[w].pc # "idle"
         /\ wf[w].entry_with_header = Some(EntryWithHeader(entry))
         /\ wf[w].author = "package"
         /\ ~IsErr(validate_entry(entry,
                      ValidationData([chain_header |-> AuthorHeader(entry)]))))
        ~> (get_entry(state, storage, Address(entry))
               = Some([entry |-> entry, crud_status |-> "live"]))

\* C10 witness: a delivered entry is held and Get returns it as Live
C10_Witness ==
    \E w \in Workflows :
        /\ wf[w].pc = "done" /\ wf[w].author = "package"
        /\ wf[w].result = Some(Ok(Address(EntryOf(w))))
        /\ get_entry(state, storage, Address(EntryOf(w)))
              = Some([entry |-> EntryOf(w), crud_status |-> "live"])

--------------------------------------------------------------------------
(* The bridge and its threads: claims *)

\* C11: every Hold workflow eventually terminates: when the author of the
\* entry is unreachable and never answers the validation package request,
\* the workflow ends in the package-unavailable outcome instead of waiting
\* forever
C11_Terminates ==
    \A w \in Workflows :
        (wf[w].pc # "idle")
        ~> (/\ wf[w].pc = "done"
            /\ wf[w].author = "silent" =>
                  /\ IsErr(wf[w].result[1])
                  /\ wf[w].result[1].err \in UnavailableErrors)

\* a workflow waits for the answer to a request it sent over the network
Suspended(w) ==
    wf[w].pc \in {"get_validation_package", "link_get_validation_package"}

\* C12: inbound handling is fire-and-forget: handle_store_entry and
\* handle_store_meta return to the bridge without waiting for the workflow
\* they spawned, so while a workflow is suspended on a network fetch the
\* bridge still accepts and dispatches the next inbound message
C12_FireAndForget ==
    \A w \in Workflows :
        (Suspended(w) /\ ~bridge.panicked) =>
            /\ bridge.joins = None
            /\ bridge.handled < MaxInbound =>
                  \A dht_meta_data \in MetaMessages :
                      \/ /\ store_meta_workflow(dht_meta_data.attribute) # None
                         /\ Len(dht_meta_data.content_list) = 1
                         /\ \A v \in Workflows : wf[v].pc # "idle"
                      \/ ENABLED (\E v \in Workflows :
                                     handle_store_meta(v, dht_meta_data, "package"))
            /\ (\E v \in Workflows : wf[v].pc = "idle") =>
                  \A entry \in Entries :
                      ENABLED (\E v \in Workflows :
                                  handle_store_entry(v, entry, "package"))

\* C12 witness: a workflow is still waiting for a package nobody sends, and a
\* workflow spawned for a later message has run to its end
C12_Witness ==
    \E w, v \in Workflows :
        /\ w < v
        /\ Suspended(w) /\ wf[w].author = "silent"
        /\ wf[v].pc = "done"
        /\ bridge.handled >= 2

\* the thread of workflow w ends in this step with the error of the workflow
EndsFailed(w) ==
    /\ wf[w].pc = "returned" /\ wf'[w].pc = "done"
    /\ IsErr(wf[w].result[1])

\* C13: when a workflow started from the network (hold entry, hold link,
\* remove link) fails, the failure is only logged: no message is sent back,
\* no action was or is dispatched for that message, and the bridge goes on
\* with later messages as before
C13_FailureOnlyLogged ==
    [][\A w \in Workflows :
          EndsFailed(w) =>
              /\ context_log' = Append(context_log,
                                       [prefix |-> "err/net/dht",
                                        error |-> wf[w].result[1].err])
              /\ sent' = sent
              /\ ~wf[w].hold_dispatched
              /\ action_channel' = action_channel /\ dispatched' = dispatched
              /\ state' = state /\ storage' = storage
              /\ bridge' = bridge /\ (BridgeFree <=> BridgeFree')]_vars

\* C13 witness: workflows of two kinds, one of them a link workflow, failed
\* and their threads ended, with nothing but the two log lines left of them
C13_Witness ==
    \E w, v \in Workflows :
        /\ wf[w].workflow \in {"hold_link", "remove_link"}
        /\ wf[v].workflow # wf[w].workflow
        /\ wf[w].pc = "done" /\ IsErr(wf[w].result[1])
        /\ wf[v].pc = "done" /\ IsErr(wf[v].result[1])
        /\ sent = <<>> /\ dispatched = {}
        /\ BridgeFree

\* the Hold workflow w waits for a validation package that never comes
WaitsForever(w) == wf[w].pc = "get_validation_package" /\ wf[w].author = "silent"

\* C14: workflows are independent of one another: while one Hold workflow is
\* suspended waiting for its validation package, a workflow started by a
\* different inbound message runs all of its steps to completion
C14_Independent ==
    \A w, v \in Workflows :
        (/\ w # v
         /\ WaitsForever(w)
         /\ wf[v].pc # "idle" /\ wf[v].author # "silent")
        ~> (wf[v].pc = "done" /\ WaitsForever(w))

\* C14 witness: a workflow spawned after the suspended one fetched its
\* package, validated, held its entry and ended
C14_Witness ==
    \E w, v \in Workflows :
        /\ w < v
        /\ WaitsForever(w)
        /\ wf[v].pc = "done" /\ wf[v].hold_dispatched
        /\ wf[v].result = Some(Ok(Address(EntryOf(v))))
        /\ CasContains(storage[state.dht.content_storage], Address(EntryOf(v)))

\* the thread of workflow w is inside Context::block_on
BlockedOn(w) ==
    wf[w].pc \in {"get_validation_package", "validate_entry", "hold_entry",
                  "await_hold"}

\* C15: a thread that blocks on a workflow from a call site that cannot
\* suspend (here the thread spawned by handle_store_entry, which never makes
\* the call from inside a reduction) always eventually resumes: block_on
\* returns and no state in which it waits forever is reached
C15_BlockedResumes ==
    \A w \in Workflows :
        BlockedOn(w) ~> (wf[w].pc \in {"returned", "done"} /\ wf[w].result # None)

\* handle_store_meta returns, or fails, in this step
MetaHandled ==
    /\ bridge'.handled # bridge.handled
    /\ bridge'.last[1].type = "StoreMeta"

\* the threads spawned in this step
Started == {w \in Workflows : wf[w].pc = "idle" /\ wf'[w].pc # "idle"}

\* the message carries the one entry with its header that a link arm reads
CarriesEntryWithHeader(dht_meta_data) ==
    /\ Len(dht_meta_data.content_list) = 1
    /\ {"entry", "header"} \subseteq DOMAIN dht_meta_data.content_list[1]

\* C16: handle_store_meta dispatches on the attribute tag: "link" starts
\* exactly one hold-link workflow for the delivered entry with its header,
\* "link_remove" exactly one remove-link workflow for it, and no other
\* attribute value starts either workflow
C16_DispatchOnTag ==
    [][MetaHandled =>
          LET dht_meta_data == bridge'.last[1]
              tag == dht_meta_data.attribute
          IN /\ \A w \in Workflows \ Started : wf'[w] = wf[w]
             /\ (tag \in {"link", "link_remove"}
                    /\ CarriesEntryWithHeader(dht_meta_data)) =>
                   /\ Cardinality(Started) = 1
                   /\ \A w \in Started :
                         /\ wf'[w].workflow = IF tag = "link" THEN "hold_link"
                                              ELSE "remove_link"
                         /\ wf'[w].entry_with_header =
                               Some(dht_meta_data.content_list[1])
                         /\ wf'[w].pc = "link_get_validation_package"
             /\ tag \notin {"link", "link_remove"} => Started = {}]_vars

\* C16 witness: a "link" and a "link_remove" message were handled and each
\* has its workflow running
C16_Witness ==
    \E w, v \in Workflows :
        /\ wf[w].pc # "idle" /\ wf[w].workflow = "hold_link"
        /\ wf[w].entry_with_header = Some(EntryWithHeader(LinkAdd(Link)))
        /\ wf[v].pc # "idle" /\ wf[v].workflow = "remove_link"
        /\ wf[v].entry_with_header = Some(EntryWithHeader(LinkRemove(Link)))
        /\ bridge.handled = 2

BridgeQuiescent ==
    /\ \A w \in Workflows : wf[w].pc \in {"idle", "done"}
    /\ action_channel = <<>> /\ reducing = None

\* C18: a link-removal or CRUD-status metadata message for an entry the node
\* does not hold is accepted and stored in the node's metadata store, and
\* receiving it never triggers a fetch of the entry itself
C18_MetaStoredWithoutEntry ==
    (/\ bridge.last # None /\ bridge.last[1].type = "StoreMeta"
     /\ BridgeQuiescent
     /\ ~CasContains(storage[state.dht.content_storage],
                     bridge.last[1].entry_address)) =>
        LET dht_meta_data == bridge.last[1]
            meta == storage[state.dht.meta_storage]
        IN /\ dht_meta_data.attribute = STATUS_NAME =>
                 /\ ~bridge.panicked
                 /\ \E row \in meta :
                       /\ row.entity = dht_meta_data.entry_address
                       /\ row.attribute = STATUS_NAME
                       /\ row.value = dht_meta_data.content_list[1]
           /\ (dht_meta_data.attribute = "link_remove"
                  /\ CarriesEntryWithHeader(dht_meta_data)) =>
                 /\ ~bridge.panicked
                 /\ \A w \in Workflows :
                       (wf[w].workflow = "remove_link" /\ wf[w].pc = "done"
                          /\ ~IsErr(wf[w].result[1]))
                       => link_recorded(wf[w], state, storage)
           /\ dht_meta_data.attribute \in {STATUS_NAME, "link_remove"} =>
                 sent = <<>>

--------------------------------------------------------------------------
(* State::get_headers: claims *)

\* the addresses headers are asked for
Queried == {Address(entry) : entry \in Entries}

\* the header is on the local chain of the current state
OnChain(header) ==
    \E i \in 1..Len(iter_chain(state, storage)) :
        iter_chain(state, storage)[i] = header

\* where on the local chain, in iteration order, the header is
ChainPosition(header) ==
    CHOOSE i \in 1..Len(iter_chain(state, storage)) :
        iter_chain(state, storage)[i] = header

\* the DHT store records the header for the entry: a row of the entry leads
\* to the header's address and the content store holds the header
RecordedInDht(entry_address, header) ==
    /\ header \in storage[state.dht.content_storage]
    /\ \E row \in storage[state.dht.meta_storage] :
          /\ row.entity = entry_address /\ row.attribute = "entry-header"
          /\ row.value = Address(header)

\* C19: get_headers(X) returns the headers of the local chain that reference
\* X first, in chain iteration order, followed by the headers obtained from
\* the DHT store: no header that comes only from the DHT store precedes a
\* local-chain header in the result
C19_ChainHeadersFirst ==
    \A X \in Queried :
        LET result == get_headers(state, storage, X)
        IN /\ ~IsErr(result)
           /\ \A i, j \in 1..Len(result.ok) :
                 i < j =>
                    /\ OnChain(result.ok[j]) => OnChain(result.ok[i])
                    /\ (OnChain(result.ok[i]) /\ OnChain(result.ok[j])) =>
                          ChainPosition(result.ok[i]) < ChainPosition(result.ok[j])
           /\ \A i \in 1..Len(result.ok) :
                 IF OnChain(result.ok[i])
                 THEN result.ok[i].entry_address = X
                 ELSE RecordedInDht(X, result.ok[i])

\* C19 witness: the chain has two headers about the entry, the DHT store
\* records a header of another agent for it, and the result has them all
C19_Witness ==
    LET result == get_headers(state, storage, Address(App("entry1")))
    IN /\ ~IsErr(result) /\ Len(result.ok) = 3
       /\ OnChain(result.ok[1]) /\ OnChain(result.ok[2])
       /\ ~OnChain(result.ok[3])
       /\ RecordedInDht(Address(App("entry1")), HeaderBy(AgentB, App("entry1")))

\* the headers that the chain store or the DHT content store holds
StoredHeaders ==
    {content \in storage[state.agent.chain_store]
                  \cup storage[state.dht.content_storage] :
        "provenance" \in DOMAIN content}

\* C20: headers accumulate: get_headers(X) returns every header that
\* references X and is on the local chain or recorded for X in the DHT store
\* (a row whose header content the DHT content store holds), for any number
\* of headers recorded there; in particular the headers of two distinct
\* agents that committed the same entry
C20_HeadersAccumulate ==
    \A X \in Queried :
        LET result == get_headers(state, storage, X)
        IN /\ ~IsErr(result)
           /\ \A header \in StoredHeaders :
                 (/\ header.entry_address = X
                  /\ OnChain(header) \/ RecordedInDht(X, header))
                 => \E i \in 1..Len(result.ok) : result.ok[i] = header

\* C20 witness: the entry is on the local chain and the DHT store records
\* the headers of two other agents for it; the result has the three
C20_Witness ==
    LET result == get_headers(state, storage, Address(App("entry1")))
    IN /\ ~IsErr(result)
       /\ {result.ok[i].provenance : i \in 1..Len(result.ok)}
             = {AgentA, AgentB, AgentC}
       /\ OnChain(HeaderBy(AgentB, App("entry1")))
       /\ RecordedInDht(Address(App("entry1")), HeaderBy(AgentA, App("entry1")))
       /\ RecordedInDht(Address(App("entry1")), HeaderBy(AgentC, App("entry1")))

\* C21: the list returned by get_headers(X) never contains two headers with
\* the same address, in every reachable state of the chain and the DHT
\* store, also when a header is both on the local chain and recorded in the
\* DHT metadata store
C21_NoDuplicateHeaders ==
    \A X \in Queried :
        LET result == get_headers(state, storage, X)
        IN /\ ~IsErr(result)
           /\ \A i, j \in 1..Len(result.ok) :
                 i # j => Address(result.ok[i]) # Address(result.ok[j])

\* C21 witness: the first header of the chain is also recorded in the DHT
\* store, another header is recorded there by two rows, and the result has
\* each of the two once
C21_Witness ==
    LET X == Address(App("entry1"))
        result == get_headers(state, storage, X)
        rows == {row \in storage[state.dht.meta_storage] :
                    row.entity = X /\ row.attribute = "entry-header"}
    IN /\ OnChain(HeaderBy(AgentB, App("entry1")))
       /\ RecordedInDht(X, HeaderBy(AgentB, App("entry1")))
       /\ RecordedInDht(X, HeaderBy(AgentA, App("entry1")))
       /\ Cardinality({row \in rows :
                          row.value = Address(HeaderBy(AgentA, App("entry1")))}) = 2
       /\ ~IsErr(result) /\ Len(result.ok) = 2

--------------------------------------------------------------------------
(* The ribosome: a sandboxed module calling the host, and the Remove     *)
(* operation (invoke_remove_entry) step by step                           *)

\* what the module writes into its memory as the argument of a host call:
\* the addresses of entry1 and of entry2 as JSON, a JSON object, and a byte
\* that is no UTF-8
ArgPayloads == {AddressJson(Address(App("entry1"))),
                AddressJson(Address(App("entry2"))),
                <<123, 125>>, <<255>>}

\* the words the module passes as the argument: no data, a failure code, an
\* allocation it has written, and an allocation outside the memory
ArgWords ==
    {RibosomeEncodingBits(Success), ribosome_error_code("Unspecified"),
     Bits(MaxMemory, 1)}
    \cup {RibosomeEncodingBits(allocation) : allocation \in runtime.written}

\* the function indexes the module calls: RemoveEntry and one outside the table
Indexes == {6, 99}

\* what the network answers to a Get that the node cannot answer itself
GetAnswers == {"none", "timeout"}

\* the entries that get held on the node before the module removes them
HeldActions == {[type |-> "Hold", entry_with_header |-> EntryWithHeader(e)] :
                    e \in Entries}

\* the module writes an argument into the memory it shares with the host
GuestWrite(payload) ==
    /\ runtime.pc = "module"
    /\ Cardinality(runtime.written) < MaxWrite
    /\ LET written == write(runtime.memory_manager, payload)
       IN /\ ~IsErr(written)
          /\ runtime' = [runtime EXCEPT
                            !.memory_manager = written.ok.memory_manager,
                            !.written = @ \cup {written.ok.allocation}]
    /\ UNCHANGED <<reduction_vars, redispatches, reader, wf, context_log, bridge,
            caller, faults, server>>

\* the versions of an entry from the given address on: the entry and its
\* status from the node itself, else from the network, then the version its
\* CRUD link leads to unless the entry is deleted
RECURSIVE entry_history(_, _, _, _)
entry_history(S, st, address, network) ==
    LET local == get_entry(S, st, address)
        link  == crud_link(S, st, address)
    IN IF local = None
       THEN IF network = "timeout" THEN Err(ErrorGeneric("timeout"))
            ELSE Ok(<<>>)
       ELSE IF link # None /\ local[1].crud_status # "deleted"
       THEN LET later == entry_history(S, st, link[1], network)
            IN IF IsErr(later) THEN later
               ELSE Ok(<<local[1]>> \o later.ok)
       ELSE Ok(<<local[1]>>)

\* get_entry_result_workflow asked for the entry at the address as it is
get_entry_result_workflow_initial(S, st, address, network) ==
    LET history == entry_history(S, st, address, network)
    IN IF IsErr(history) THEN history
       ELSE IF history.ok = <<>> THEN Ok(None)
       ELSE Ok(Some(history.ok[1]))

\* get_entry_result_workflow with the default options, and the latest()
\* of its result: the last version found from the address on
get_entry_result_workflow(S, st, address, network) ==
    LET history == entry_history(S, st, address, network)
    IN IF IsErr(history) THEN history
       ELSE IF history.ok = <<>> THEN Ok(None)
       ELSE Ok(Some(history.ok[Len(history.ok)]))

\* the host function returns the word to the module
return(r, bits) == [r EXCEPT !.pc = "module", !.returned = Append(@, bits)]

\* runtime.store_result(result) at the end of invoke_remove_entry
returns_result(r, result) ==
    LET stored == store_result(r.memory_manager, result)
    IN [return(r, stored.bits) EXCEPT
           !.memory_manager = stored.memory_manager,
           !.result = Some(result),
           !.stored = Append(@, [json |-> ZomeApiInternalResult(result),
                                 bits |-> stored.bits])]

\* Externals::invoke_index with every index served by invoke_remove_entry
invoke_index_unchecked(index, encoded) ==
    /\ runtime.pc = "module"
    /\ runtime.invoked < MaxInvoke
    /\ LET zf == "RemoveEntry"
           called == [runtime EXCEPT
                         !.invoked = @ + 1, !.index = Some(index),
                         !.zf = Some(zf),
                         !.args = Some(encoded), !.address = None,
                         !.deletion_entry = None, !.validation = None,
                         !.validated = None, !.commit = None,
                         !.remove = None, !.result = None]
           loaded == load_json_string_from_args(runtime.memory_manager, encoded)
       IN IF "panic" \in DOMAIN loaded
          THEN /\ runtime' = [called EXCEPT !.pc = "panicked"]
               /\ UNCHANGED context_log
          ELSE LET try_address == Address_try_from(loaded.json)
               IN IF IsErr(try_address)
                  THEN /\ context_log' =
                              Append(context_log,
                                     [prefix |-> "err/zome",
                                      line |-> "invoke_remove_entry failed to deserialize Address",
                                      args_str |-> loaded.json])
                       /\ runtime' =
                              return(called, ribosome_error_code(
                                         "ArgumentDeserializationFailed"))
                  ELSE /\ runtime' = [called EXCEPT
                                         !.pc = "get_entry_result",
                                         !.address = Some(try_address.ok)]
                       /\ UNCHANGED context_log
    /\ UNCHANGED <<reduction_vars, redispatches, reader, wf, bridge, caller,
                   faults, server>>

\* Externals::invoke_index with an argument that is no Address answered
\* without a line in the log
invoke_index_unlogged(index, encoded) ==
    /\ runtime.pc = "module"
    /\ runtime.invoked < MaxInvoke
    /\ LET zf == from_index(index)
           called == [runtime EXCEPT
                         !.invoked = @ + 1, !.index = Some(index),
                         !.zf = Some(zf),
                         !.args = Some(encoded), !.address = None,
                         !.deletion_entry = None, !.validation = None,
                         !.validated = None, !.commit = None,
                         !.remove = None, !.result = None]
           loaded == load_json_string_from_args(runtime.memory_manager, encoded)
       IN IF zf = "MissingNo"
          THEN /\ runtime' = [called EXCEPT !.pc = "panicked"]
               /\ UNCHANGED context_log
          ELSE IF "panic" \in DOMAIN loaded
          THEN /\ runtime' = [called EXCEPT !.pc = "panicked"]
               /\ UNCHANGED context_log
          ELSE LET try_address == Address_try_from(loaded.json)
               IN IF IsErr(try_address)
                  THEN /\ UNCHANGED context_log
                       /\ runtime' =
                              return(called, ribosome_error_code(
                                         "ArgumentDeserializationFailed"))
                  ELSE /\ runtime' = [called EXCEPT
                                         !.pc = "get_entry_result",
                                         !.address = Some(try_address.ok)]
                       /\ UNCHANGED context_log
    /\ UNCHANGED <<reduction_vars, redispatches, reader, wf, bridge, caller,
                   faults, server>>

\* Externals::invoke_index: an index outside the table panics; RemoveEntry
\* is invoke_remove_entry up to the deserialized address: the argument is
\* loaded from the memory, and an argument that is no Address is logged and
\* answered with ArgumentDeserializationFailed
invoke_index(index, encoded) ==
    /\ runtime.pc = "module"
    /\ runtime.invoked < MaxInvoke
    /\ LET zf == from_index(index)
           called == [runtime EXCEPT
                         !.invoked = @ + 1, !.index = Some(index),
                         !.zf = Some(zf),
                         !.args = Some(encoded), !.address = None,
                         !.deletion_entry = None, !.validation = None,
                         !.validated = None, !.commit = None,
                         !.remove = None, !.result = None]
           loaded == load_json_string_from_args(runtime.memory_manager, encoded)
       IN IF zf = "MissingNo"
          THEN /\ runtime' = [called EXCEPT !.pc = "panicked"]
               /\ UNCHANGED context_log
          ELSE IF "panic" \in DOMAIN loaded
          THEN /\ runtime' = [called EXCEPT !.pc = "panicked"]
               /\ UNCHANGED context_log
          ELSE LET try_address == Address_try_from(loaded.json)
               IN IF IsErr(try_address)
                  THEN /\ context_log' =
                              Append(context_log,
                                     [prefix |-> "err/zome",
                                      line |-> "invoke_remove_entry failed to deserialize Address",
                                      args_str |-> loaded.json])
                       /\ runtime' =
                              return(called, ribosome_error_code(
                                         "ArgumentDeserializationFailed"))
                  ELSE /\ runtime' = [called EXCEPT
                                         !.pc = "get_entry_result",
                                         !.address = Some(try_address.ok)]
                       /\ UNCHANGED context_log
    /\ UNCHANGED <<reduction_vars, redispatches, reader, wf, bridge, caller,
                   faults, server>>

\* invoke_remove_entry with the deletion entry created for the address the
\* module passed when the Get finds no entry
GetEntryResult_unchecked(network) ==
    /\ runtime.pc = "get_entry_result"
    /\ LET maybe_entry_result ==
               get_entry_result_workflow(state, storage, runtime.address[1],
                                         network)
       IN IF IsErr(maybe_entry_result)
          THEN runtime' = return(runtime, ribosome_error_code("Unspecified"))
          ELSE LET deleted_entry_address ==
                       IF maybe_entry_result.ok = None THEN runtime.address[1]
                       ELSE Address(maybe_entry_result.ok[1].entry)
               IN runtime' = [runtime EXCEPT
                                 !.pc = "build_validation_package",
                                 !.address = Some(deleted_entry_address),
                                 !.deletion_entry =
                                     Some(Deletion(deleted_entry_address))]
    /\ UNCHANGED <<reduction_vars, redispatches, reader, wf, context_log, bridge,
                   caller, faults, server>>

\* invoke_remove_entry: the latest version of the entry is looked up; a
\* failed Get and an entry that is not found are answered with Unspecified,
\* else the deletion entry is created
GetEntryResult(network) ==
    /\ runtime.pc = "get_entry_result"
    /\ LET maybe_entry_result ==
               get_entry_result_workflow(state, storage, runtime.address[1],
                                         network)
       IN IF IsErr(maybe_entry_result)
          THEN runtime' = return(runtime, ribosome_error_code("Unspecified"))
          ELSE IF maybe_entry_result.ok = None
          THEN runtime' = return(runtime, ribosome_error_code("Unspecified"))
          ELSE LET deleted_entry_address ==
                       Address(maybe_entry_result.ok[1].entry)
               IN runtime' = [runtime EXCEPT
                                 !.pc = "build_validation_package",
                                 !.address = Some(deleted_entry_address),
                                 !.deletion_entry =
                                     Some(Deletion(deleted_entry_address))]
    /\ UNCHANGED <<reduction_vars, redispatches, reader, wf, context_log, bridge,
            caller, faults, server>>

\* step 1, build_validation_package: the package is built from the chain,
\* or the step fails and the operation ends with the error
BuildValidationPackage(built) ==
    /\ runtime.pc = "build_validation_package"
    /\ runtime' =
           IF built
           THEN [runtime EXCEPT
                    !.pc = "validate_entry",
                    !.validation =
                        Some([package |-> [chain_header |-> state.agent.top_chain_header],
                              lifecycle |-> "Chain", action |-> "Delete"])]
           ELSE returns_result(runtime, Err(ErrorGeneric("no validation package")))
    /\ UNCHANGED <<reduction_vars, redispatches, reader, wf, context_log, bridge,
            caller, faults, server>>

\* step 2 with the commit made whatever the validation gave
after_validation_commits(r, validated) ==
    [r EXCEPT !.pc = "commit_entry", !.validated = Some(validated)]

\* step 2, validate_entry: only a valid deletion entry goes on to the commit
after_validation(r, validated) ==
    IF IsErr(validated)
    THEN returns_result([r EXCEPT !.validated = Some(validated)], validated)
    ELSE [r EXCEPT !.pc = "commit_entry", !.validated = Some(validated)]

ValidateEntry ==
    /\ runtime.pc = "validate_entry"
    /\ runtime' = after_validation(runtime,
                                   validate_entry(runtime.deletion_entry[1],
                                                  runtime.validation[1]))
    /\ UNCHANGED <<reduction_vars, redispatches, reader, wf, context_log, bridge,
            caller, faults, server>>

\* step 3, commit_entry: the Commit action of the deletion entry is
\* dispatched and awaited
CommitEntry ==
    /\ runtime.pc = "commit_entry"
    /\ LET aw == [id |-> next_id,
                  action |-> [type |-> "Commit",
                              entry |-> runtime.deletion_entry[1],
                              maybe_crud_link |-> runtime.address]]
       IN /\ action_channel' = Append(action_channel, aw)
          /\ dispatched' = dispatched \cup {aw}
          /\ runtime' = [runtime EXCEPT !.pc = "commit_await",
                                        !.commit = Some(aw)]
    /\ next_id' = next_id + 1
    /\ UNCHANGED <<state, storage, sent, networks, reducing, redispatches, reader,
                   wf, context_log, bridge, caller, faults, server>>

\* step 4, remove_entry: once the commit is reduced, a failed commit ends
\* the operation with its error; after a commit that succeeded the
\* RemoveEntry action is dispatched and awaited
RemoveEntry ==
    /\ runtime.pc = "commit_await"
    /\ runtime.commit[1] \in state.history
    /\ LET committed == CHOOSE a \in state.agent.actions :
                             a.aw = runtime.commit[1]
           aw == [id |-> next_id,
                  action |-> [type |-> "RemoveEntry",
                              deleted_address |-> runtime.address[1],
                              deletion_address |->
                                  Address(runtime.deletion_entry[1])]]
       IN IF IsErr(committed.result)
          THEN /\ runtime' = returns_result(runtime, committed.result)
               /\ UNCHANGED <<action_channel, dispatched, next_id>>
          ELSE /\ action_channel' = Append(action_channel, aw)
               /\ dispatched' = dispatched \cup {aw}
               /\ runtime' = [runtime EXCEPT !.pc = "remove_await",
                                             !.remove = Some(aw)]
               /\ next_id' = next_id + 1
    /\ UNCHANGED <<state, storage, sent, networks, reducing, redispatches, reader,
                   wf, context_log, bridge, caller, faults, server>>

\* the RemoveEntry action is reduced, and the module is told that the
\* entry was removed whatever the reducer recorded
RemoveDone_always_ok ==
    /\ runtime.pc = "remove_await"
    /\ runtime.remove[1] \in state.history
    /\ runtime' = returns_result(runtime, Ok(<<>>))
    /\ UNCHANGED <<reduction_vars, redispatches, reader, wf, context_log, bridge,
                   caller, faults, server>>

\* the RemoveEntry action is reduced: its result is stored for the module
RemoveDone ==
    /\ runtime.pc = "remove_await"
    /\ runtime.remove[1] \in state.history
    /\ LET done == CHOOSE a \in state.dht.actions : a.aw = runtime.remove[1]
       IN runtime' = returns_result(runtime,
                                    IF IsErr(done.result) THEN done.result
                                    ELSE Ok(<<>>))
    /\ UNCHANGED <<reduction_vars, redispatches, reader, wf, context_log, bridge,
            caller, faults, server>>

\* the updates of entries: entry2 by entry1 as its new version, and entry1
\* by entry3, which the node does not hold
UpdateActions ==
    {[type |-> "UpdateEntry", old_address |-> Address(App("entry2")),
      new_address |-> Address(App("entry1"))],
     [type |-> "UpdateEntry", old_address |-> Address(App("entry1")),
      new_address |-> Address(App("entry3"))]}

\* an update of an entry reaches the DHT reducer
UpdateEntry(action) ==
    /\ Cardinality({aw \in dispatched : aw.action.type = "UpdateEntry"})
           < MaxUpdate
    /\ LET aw == [id |-> next_id, action |-> action]
       IN /\ action_channel' = Append(action_channel, aw)
          /\ dispatched' = dispatched \cup {aw}
    /\ next_id' = next_id + 1
    /\ UNCHANGED <<state, storage, sent, networks, reducing, redispatches, reader,
                   wf, context_log, bridge, runtime, caller, faults, server>>

\* the chain store of the node fails its writes from the reduction of a
\* Commit on
StorageFault ==
    /\ faults = {}
    /\ reducing # None
    /\ reducing[1].aw.action.type = "Commit"
    /\ faults' = {Fault(state.agent.chain_store, "add")}
    /\ UNCHANGED <<reduction_vars, redispatches, reader, wf, context_log, bridge,
                   runtime, caller, server>>

NextRuntime ==
    \/ \E action \in HeldActions : Dispatch(action)
    \/ StorageFault
    \/ ReduceBegin
    \/ \E send_ok \in BOOLEAN : ReduceEnd(send_ok)
    \/ \E payload \in ArgPayloads : GuestWrite(payload)
    \/ \E index \in Indexes : \E encoded \in ArgWords : invoke_index(index, encoded)
    \/ \E network \in GetAnswers : GetEntryResult(network)
    \/ \E built \in BOOLEAN : BuildValidationPackage(built)
    \/ ValidateEntry
    \/ CommitEntry
    \/ RemoveEntry
    \/ RemoveDone

SpecRuntime == Init /\ [][NextRuntime]_vars

\* what the module writes as the argument of a Remove: the address of
\* entry1 or of entry2
RemovePayloads == {AddressJson(Address(entry)) : entry \in Entries}

\* the module calls RemoveEntry with the handle of the argument it wrote
invoke_remove_entry(encoded) ==
    /\ runtime.invoked < MaxRemove
    /\ encoded \in {RibosomeEncodingBits(allocation) :
                        allocation \in runtime.written}
    /\ invoke_index(6, encoded)

\* Remove operations on a node that holds entries, some of them updated
NextUpdate ==
    \/ \E action \in HeldActions : Dispatch(action)
    \/ \E action \in UpdateActions : UpdateEntry(action)
    \/ ReduceBegin
    \/ \E send_ok \in BOOLEAN : ReduceEnd(send_ok)
    \/ \E payload \in RemovePayloads : GuestWrite(payload)
    \/ \E encoded \in ArgWords : invoke_remove_entry(encoded)
    \/ \E network \in GetAnswers : GetEntryResult(network)
    \/ \E built \in BOOLEAN : BuildValidationPackage(built)
    \/ ValidateEntry
    \/ CommitEntry
    \/ RemoveEntry
    \/ RemoveDone

SpecUpdate == Init /\ [][NextUpdate]_vars

\* the word is one of the malformed arguments: a failure code where an
\* allocation is expected, or an allocation inside the memory whose bytes
\* are no UTF-8 or do not deserialize to an Address
MalformedArgument(encoded) ==
    LET value == RibosomeEncodedValue(encoded)
    IN \/ value.kind = "Failure"
       \/ /\ value.kind = "Allocation"
          /\ ~IsErr(WasmAllocation_try_from(value))
          /\ LET bin_arg == read(runtime.memory_manager, value)
             IN \/ IsErr(from_utf8(bin_arg))
                \/ IsErr(Address_try_from(bin_arg))

\* the last host call was invoke_remove_entry and has ended
Answered == runtime.zf = Some("RemoveEntry") /\ runtime.pc \in {"module", "panicked"}

\* C22: malformed data passed as the argument of a host call (a payload that
\* does not deserialize, bytes that are no UTF-8, a failure-code word in the
\* place of an allocation handle) is answered with an encoded failure word
\* and never ends the call in a panic
C22_MalformedArgumentAnswered ==
    (Answered /\ MalformedArgument(runtime.args[1])) =>
        /\ runtime.pc = "module"
        /\ runtime.returned # <<>>
        /\ RibosomeEncodedValue(runtime.returned[Len(runtime.returned)]).kind
               = "Failure"

\* the part of C22 that the code keeps: a payload of valid UTF-8 that does
\* not deserialize is answered with ArgumentDeserializationFailed
C22_UndeserializableAnswered ==
    LET value == RibosomeEncodedValue(runtime.args[1])
    IN (/\ Answered /\ value.kind = "Allocation"
        /\ ~IsErr(WasmAllocation_try_from(value))
        /\ ~IsErr(from_utf8(read(runtime.memory_manager, value)))
        /\ IsErr(Address_try_from(read(runtime.memory_manager, value)))) =>
           /\ runtime.pc = "module"
           /\ runtime.returned[Len(runtime.returned)]
                  = ribosome_error_code("ArgumentDeserializationFailed")

\* the module calls the host in this step
Invokes == runtime.pc = "module" /\ runtime'.invoked = runtime.invoked + 1

\* C23: a call of the host with a function index that is not in the
\* host-function table is fatal to that one execution context: no host
\* function runs for the call (nothing is loaded, logged, returned or
\* started), the shared state outside the context (chain, DHT store, network
\* state, history, action channel) is unchanged by it, and the context
\* takes no step afterwards
C23_UnknownIndexFatal ==
    [][/\ (Invokes /\ from_index(runtime'.index[1]) = "MissingNo") =>
             /\ runtime'.pc = "panicked"
             /\ runtime'.memory_manager = runtime.memory_manager
             /\ runtime'.returned = runtime.returned
             /\ runtime'.stored = runtime.stored
             /\ runtime'.address = None
             /\ state' = state /\ storage' = storage
             /\ sent' = sent /\ networks' = networks
             /\ action_channel' = action_channel /\ dispatched' = dispatched
             /\ context_log' = context_log
       /\ runtime.pc = "panicked" => runtime' = runtime]_vars

\* C23 witness: the module has called an index outside the table while an
\* entry was held on the node and another action was waiting to be reduced
C23_Witness ==
    /\ runtime.pc = "panicked"
    /\ runtime.index = Some(99)
    /\ runtime.args # None /\ RibosomeEncodedValue(runtime.args[1]).kind = "Allocation"
    /\ state.history # {}
    /\ action_channel # <<>>

--------------------------------------------------------------------------
(* The encoding of RibosomeEncodedValue on its own: two values are drawn, *)
(* encoded and decoded                                                    *)

\* the values a host function encodes: Success, every failure code, and
\* every allocation of the memory (a WasmAllocation is not empty)
EncodedValues ==
    {Success} \cup {Failure(code) : code \in ErrorCodes}
    \cup {Allocation(offset, length) :
              <<offset, length>> \in
                  {ol \in (0..MaxMemory) \X (1..MaxMemory) :
                      ol[1] + ol[2] <= MaxMemory}}

InitEncoding ==
    /\ state = new
    /\ storage = NewStorage
    /\ sent = <<>>
    /\ networks = 0
    /\ action_channel = <<>>
    /\ reducing = None
    /\ next_id = 1
    /\ dispatched = {}
    /\ redispatches = 0
    /\ reader = None
    /\ wf = [w \in Workflows |-> IdleWorkflow]
    /\ context_log = <<>>
    /\ bridge = [joins |-> None, panicked |-> FALSE, handled |-> 0, last |-> None]
    /\ runtime \in {[pc |-> "values", values |-> <<a, b>>] :
                        a \in EncodedValues, b \in EncodedValues}
    /\ caller = NewCaller
    /\ faults = {}
    /\ server = ServerInit

\* RibosomeEncodingBits::from of both values
Encode ==
    /\ runtime.pc = "values"
    /\ runtime' = [pc |-> "encoded", values |-> runtime.values,
                   bits |-> <<RibosomeEncodingBits(runtime.values[1]),
                              RibosomeEncodingBits(runtime.values[2])>>]
    /\ UNCHANGED <<reduction_vars, redispatches, reader, wf, context_log, bridge,
            caller, faults, server>>

\* RibosomeEncodedValue::from of both words
Decode ==
    /\ runtime.pc = "encoded"
    /\ runtime' = [pc |-> "decoded", values |-> runtime.values,
                   bits |-> runtime.bits,
                   decoded |-> <<RibosomeEncodedValue(runtime.bits[1]),
                                 RibosomeEncodedValue(runtime.bits[2])>>]
    /\ UNCHANGED <<reduction_vars, redispatches, reader, wf, context_log, bridge,
            caller, faults, server>>

NextEncoding == Encode \/ Decode

SpecEncoding == InitEncoding /\ [][NextEncoding]_vars

C25_StoreRoundTrip ==
    \A k \in 1..Len(runtime.stored) :
        LET value == RibosomeEncodedValue(runtime.stored[k].bits)
        IN value.kind = "Allocation" =>
               /\ ~IsErr(WasmAllocation_try_from(value))
               /\ read(runtime.memory_manager, value)
                      = Append(runtime.stored[k].json, 0)

\* C25 witness: two results were stored in the same runtime after the
\* module's own write, a failure and a success, at different offsets
C25_Witness ==
    /\ Len(runtime.stored) = 2
    /\ runtime.written # {}
    /\ LET first  == RibosomeEncodedValue(runtime.stored[1].bits)
           second == RibosomeEncodedValue(runtime.stored[2].bits)
       IN /\ first.kind = "Allocation" /\ second.kind = "Allocation"
          /\ first.offset < second.offset
          /\ runtime.stored[1].json # runtime.stored[2].json
          /\ read(runtime.memory_manager, second) = <<111, 107, 0>>

--------------------------------------------------------------------------
(* The application's calls on the node: Author, Get, Remove, add_link and *)
(* get_links                                                              *)

\* the entries the application authors; the validation callback rejects entry2
AuthorEntries == {App("entry1"), App("entry2"), App("entry3")}

\* the node is the only one of its network, or there are others
Peers == {"alone", "others"}

\* what the other nodes of the network hold
PeerEntries == {App("entry1")}

\* the second link from the same base with the same tag
Link2 == [base |-> Address(App("entry1")), target |-> Address(App("entry3")),
          tag |-> "tag"]

CallerLinks == {Link, Link2}

\* the network's answer to a Get: the entry when another node holds it
network_get_entry(address, peers) ==
    IF peers = "others" /\ \E e \in PeerEntries : Address(e) = address
    THEN Some([entry |-> CHOOSE e \in PeerEntries : Address(e) = address,
               crud_status |-> "live"])
    ELSE None

\* Get with absence reported as a failure
caller_get_absent_is_error(S, st, address, peers) ==
    LET local == get_entry(S, st, address)
        found == IF local # None THEN local ELSE network_get_entry(address, peers)
    IN IF found = None THEN Err(ErrorGeneric("entry not found")) ELSE Ok(found)

\* Get: the entry with its status from the node itself, else from the
\* network; an address that nobody holds gives Ok(None)
caller_get(S, st, address, peers) ==
    LET local == get_entry(S, st, address)
    IN Ok(IF local # None THEN local ELSE network_get_entry(address, peers))

\* the attribute under which the links of a tag are recorded
link_attribute(tag) == CASE tag = "tag" -> "link__tag"

\* get_links with only the link added last
get_links_latest(S, st, base, tag) ==
    LET rows == {row \in st[S.dht.meta_storage] :
                    row.entity = base /\ row.attribute = link_attribute(tag)}
    IN {row.value : row \in {r \in rows : \A other \in rows :
                                              other.index <= r.index}}

\* get_links: the targets of the links recorded under the base with the tag
get_links(S, st, base, tag) ==
    LET rows == {row \in st[S.dht.meta_storage] :
                    row.entity = base /\ row.attribute = link_attribute(tag)}
    IN {row.value : row \in rows}

\* the caller puts an action on the action channel and waits for it
dispatch_and_await(action, pc) ==
    LET aw == [id |-> next_id, action |-> action]
    IN /\ action_channel' = Append(action_channel, aw)
       /\ dispatched' = dispatched \cup {aw}
       /\ next_id' = next_id + 1
       /\ caller' = [caller EXCEPT !.pc = pc, !.awaits = Some(aw)]

\* author_entry: the entry is validated (lifecycle Chain, action Create); an
\* invalid entry ends the workflow, a valid one is committed
AuthorEntry(entry) ==
    /\ caller.pc = "idle"
    /\ caller.calls < MaxAuthor
    /\ LET validated ==
               validate_entry(entry,
                              [package |-> [chain_header |-> state.agent.top_chain_header],
                               lifecycle |-> "Chain", action |-> "Create"])
       IN IF IsErr(validated)
          THEN /\ caller' = [caller EXCEPT !.calls = @ + 1,
                                            !.result = Some(validated)]
               /\ UNCHANGED <<action_channel, dispatched, next_id>>
          ELSE /\ action_channel' =
                      Append(action_channel,
                             [id |-> next_id,
                              action |-> [type |-> "Commit", entry |-> entry]])
               /\ dispatched' =
                      dispatched \cup {[id |-> next_id,
                                        action |-> [type |-> "Commit",
                                                    entry |-> entry]]}
               /\ next_id' = next_id + 1
               /\ caller' = [caller EXCEPT
                                !.pc = "author_commit", !.entry = Some(entry),
                                !.calls = @ + 1, !.result = None,
                                !.awaits = Some([id |-> next_id,
                                                 action |-> [type |-> "Commit",
                                                             entry |-> entry]])]
    /\ UNCHANGED <<state, storage, sent, networks, reducing, redispatches, reader,
                   wf, context_log, bridge, runtime, faults, server>>

\* author_entry with nothing forwarded to the DHT after the commit
author_forward_nothing(entry, header) == None

\* author_entry after the commit: the add-to-DHT action of the entry under
\* the header the commit gave it
author_forward(entry, header) ==
    Some([type |-> "Hold",
          entry_with_header |-> [entry |-> entry, header |-> header]])

\* author_entry: the commit is reduced and the add-to-DHT action goes out
AuthorCommitted ==
    /\ caller.pc = "author_commit"
    /\ caller.awaits[1] \in state.history
    /\ LET entry   == caller.entry[1]
           header  == about(iter_chain(state, storage), Address(entry))[1]
           forward == author_forward(entry, header)
       IN IF forward = None
          THEN /\ caller' = [caller EXCEPT
                                !.pc = "idle", !.awaits = None,
                                !.authored = @ \cup {entry},
                                !.result = Some(Ok(Address(entry)))]
               /\ UNCHANGED <<action_channel, dispatched, next_id>>
          ELSE dispatch_and_await(forward[1], "author_publish")
    /\ UNCHANGED <<state, storage, sent, networks, reducing, redispatches, reader,
                   wf, context_log, bridge, runtime, faults, server>>

\* author_entry: the add-to-DHT action is reduced and the workflow returns
\* the address
AuthorPublished ==
    /\ caller.pc = "author_publish"
    /\ caller.awaits[1] \in state.history
    /\ caller' = [caller EXCEPT
                     !.pc = "idle", !.awaits = None,
                     !.authored = @ \cup {caller.entry[1]},
                     !.result = Some(Ok(Address(caller.entry[1])))]
    /\ UNCHANGED <<reduction_vars, redispatches, reader, wf, context_log, bridge,
                   runtime, faults, server>>

\* a RemoveEntry action about the address was dispatched
RemoveStarted(address) ==
    \E aw \in dispatched :
        aw.action.type = "RemoveEntry" /\ aw.action.deleted_address = address

\* the application calls Get; the call is kept with what was true of the
\* address when it was made
Get(address, peers) ==
    /\ caller.pc = "idle"
    /\ caller.gets < MaxGet
    /\ caller' = [caller EXCEPT
           !.gets = @ + 1,
           !.got = Some([address |-> address, peers |-> peers,
                         result |-> caller_get(state, storage, address, peers),
                         authored |-> caller.authored,
                         removed |-> RemoveStarted(address)])]
    /\ UNCHANGED <<reduction_vars, redispatches, reader, wf, context_log, bridge,
                   runtime, faults, server>>

\* the application removes an entry it has authored
RemoveAuthored(entry) ==
    /\ caller.pc = "idle"
    /\ entry \in caller.authored
    /\ ~RemoveStarted(Address(entry))
    /\ dispatch_and_await([type |-> "RemoveEntry",
                           deleted_address |-> Address(entry),
                           deletion_address |-> Address(Deletion(Address(entry)))],
                          "remove_await")
    /\ UNCHANGED <<state, storage, sent, networks, reducing, redispatches, reader,
                   wf, context_log, bridge, runtime, faults, server>>

\* dht::actions::add_link: the AddLink action is dispatched and awaited
add_link(link) ==
    /\ caller.pc = "idle"
    /\ link \notin caller.linked
    /\ dispatch_and_await([type |-> "AddLink", link |-> link], "link_await")
    /\ UNCHANGED <<state, storage, sent, networks, reducing, redispatches, reader,
                   wf, context_log, bridge, runtime, faults, server>>

\* the action the caller waits for is reduced
Awaited ==
    /\ caller.pc \in {"remove_await", "link_await"}
    /\ caller.awaits[1] \in state.history
    /\ caller' = [caller EXCEPT
                     !.pc = "idle", !.awaits = None,
                     !.linked = IF caller.pc = "link_await"
                                THEN @ \cup {caller.awaits[1].action.link}
                                ELSE @]
    /\ UNCHANGED <<reduction_vars, redispatches, reader, wf, context_log, bridge,
                   runtime, faults, server>>

\* get_links for the base and the tag of the links, asked by the node
\* itself or by another node of the network, which the node answers
GetLinks(from) ==
    /\ caller.pc = "idle"
    /\ caller.gets < MaxGet
    /\ caller' = [caller EXCEPT
           !.gets = @ + 1,
           !.links = Some([from |-> from, linked |-> caller.linked,
                           targets |-> get_links(state, storage, Link.base,
                                                 Link.tag)])]
    /\ UNCHANGED <<reduction_vars, redispatches, reader, wf, context_log, bridge,
                   runtime, faults, server>>

\* the application authors, gets and removes entries
NextGet ==
    \/ \E entry \in AuthorEntries : AuthorEntry(entry)
    \/ AuthorCommitted
    \/ AuthorPublished
    \/ \E entry \in AuthorEntries : \E peers \in Peers : Get(Address(entry), peers)
    \/ \E entry \in AuthorEntries : RemoveAuthored(entry)
    \/ Awaited
    \/ ReduceBegin
    \/ \E send_ok \in BOOLEAN : ReduceEnd(send_ok)

SpecGet == Init /\ [][NextGet]_vars

\* the application authors entries, links them and asks for the links
NextLinks ==
    \/ \E entry \in AuthorEntries : AuthorEntry(entry)
    \/ AuthorCommitted
    \/ AuthorPublished
    \/ \E link \in CallerLinks : add_link(link)
    \/ Awaited
    \/ \E from \in {"self", "other"} : GetLinks(from)
    \/ ReduceBegin
    \/ \E send_ok \in BOOLEAN : ReduceEnd(send_ok)

SpecLinks == Init /\ [][NextLinks]_vars

\* no node of the network has ever stored anything under the address:
\* neither the node's chain store nor its DHT store holds it (the stores
\* only grow), and no other node does
NeverStored(address, peers) ==
    /\ ~CasContains(storage[state.agent.chain_store], address)
    /\ ~CasContains(storage[state.dht.content_storage], address)
    /\ ~(peers = "others" /\ \E e \in PeerEntries : Address(e) = address)

C27_AuthoredEntryIsGot ==
    caller.got # None =>
        LET g == caller.got[1]
        IN \A entry \in g.authored :
               (g.address = Address(entry) /\ ~g.removed) =>
                   g.result = Ok(Some([entry |-> entry, crud_status |-> "live"]))

\* C27 witness: entry1 and entry3 were authored, entry3 was removed, and the
\* Get made after all that for entry1 returned entry1 as Live
C27_Witness ==
    /\ caller.got # None
    /\ caller.got[1].authored = {App("entry1"), App("entry3")}
    /\ caller.got[1].address = Address(App("entry1"))
    /\ caller.got[1].peers = "alone"
    /\ ~caller.got[1].removed
    /\ caller.got[1].result =
           Ok(Some([entry |-> App("entry1"), crud_status |-> "live"]))
    /\ crud_status(state, storage, Address(App("entry3"))) = Some("deleted")

\* C28: after two links from the same base with the same tag have been
\* added, in either order, a get-links query for the base and the tag, from
\* the node itself or from another node, returns both target addresses
C28_BothLinksReturned ==
    caller.links # None =>
        LET g == caller.links[1]
        IN CallerLinks \subseteq g.linked =>
               {Link.target, Link2.target} \subseteq g.targets

\* C28 witness: the link to entry3 was added before the link to entry2, and
\* another node's query made after both got the two targets
C28_Witness ==
    /\ caller.links # None
    /\ caller.links[1].from = "other"
    /\ caller.links[1].linked = CallerLinks
    /\ caller.links[1].targets = {Link.target, Link2.target}
    /\ \E first, second \in storage[state.dht.meta_storage] :
          /\ first.attribute = "link__tag" /\ second.attribute = "link__tag"
          /\ first.value = Link2.target /\ second.value = Link.target
          /\ first.index < second.index

--------------------------------------------------------------------------
(* Concurrent writers of the content store that State::new hands to the  *)
(* DHT slice: each holds the store's lock for one add at a time           *)

RECURSIVE SeqsUpTo(_, _)
\* the non-empty sequences over the set of length n at most
SeqsUpTo(S, n) ==
    IF n = 0 THEN {}
    ELSE {<<x>> : x \in S}
         \cup {Append(q, x) : q \in SeqsUpTo(S, n - 1), x \in S}

\* what each writer writes, in its own order
WriterPlans == SeqsUpTo(Entries, MaxAdd)

InitWriters ==
    /\ state = new
    /\ storage = NewStorage
    /\ sent = <<>>
    /\ networks = 0
    /\ action_channel = <<>>
    /\ reducing = None
    /\ next_id = 1
    /\ dispatched = {}
    /\ redispatches = 0
    /\ reader = None
    /\ wf \in [Workflows -> {[pc |-> "writing", writes |-> plan, written |-> 0] :
                                  plan \in WriterPlans}]
    /\ context_log = <<>>
    /\ bridge = [joins |-> None, panicked |-> FALSE, handled |-> 0, last |-> None]
    /\ runtime = NewRuntime
    /\ caller = NewCaller
    /\ faults = {}
    /\ server = ServerInit

\* a writer takes the lock and adds its next content to the store
CasWrite(w) ==
    /\ wf[w].written < Len(wf[w].writes)
    /\ storage' = [storage EXCEPT ![state.dht.content_storage] =
                       CasAdd(@, wf[w].writes[wf[w].written + 1])]
    /\ wf' = [wf EXCEPT ![w].written = @ + 1,
                        ![w].pc = IF wf[w].written + 1 = Len(wf[w].writes)
                                  THEN "done" ELSE "writing"]
    /\ UNCHANGED <<state, sent, networks, action_channel, reducing, next_id,
                   dispatched, redispatches, reader, context_log, bridge, runtime,
                   caller, faults, server>>

NextWriters == \E w \in Workflows : CasWrite(w)

SpecWriters == InitWriters /\ [][NextWriters]_vars

--------------------------------------------------------------------------
(* The calls on the static file server and the threads of its servers *)

NextServer ==
    \/ StartServer
    \/ StopServer
    \/ \E thread \in 1..MaxCalls, served \in BOOLEAN :
          ServerThreadServe(thread, served)
    \/ \E thread \in 1..MaxCalls : ServerThreadRecv(thread)

SpecServer == Init /\ [][NextServer]_vars

RECURSIVE add_all(_, _)
\* the store after the contents were added one after the other
add_all(cas, contents) ==
    IF contents = <<>> THEN cas
    ELSE add_all(CasAdd(cas, Head(contents)), Tail(contents))

RECURSIVE sequential(_, _, _)
\* the store after the writers wrote one after the other, in the order p,
\* from the i-th of them on
sequential(cas, p, i) ==
    IF i > MaxWorkflows THEN cas
    ELSE sequential(add_all(cas, wf[p[i]].writes), p, i + 1)

DeletionCommitted(entry) ==
    CasContains(storage[state.agent.chain_store],
                Address(Deletion(Address(entry))))

\* C30: the Remove operation runs its steps in order (build the validation
\* package, validate the deletion entry, commit it to the chain, update the
\* DHT status of the deleted entry) and a step runs only if every earlier
\* step succeeded: the status update never happens unless the deletion
\* entry was committed, and the commit never happens unless the validation
\* passed
C30_RemoveStepsInOrder ==
    /\ runtime.validated # None => runtime.validation # None
    /\ runtime.commit # None =>
           runtime.validated # None /\ ~IsErr(runtime.validated[1])
    /\ runtime.remove # None =>
           runtime.commit # None /\ runtime.commit[1] \in state.history
    /\ \A aw \in dispatched :
           aw.action.type = "RemoveEntry" =>
               \E commit \in state.history :
                   /\ commit.action.type = "Commit"
                   /\ Address(commit.action.entry) = aw.action.deletion_address
                   /\ commit.id < aw.id
    /\ \A entry \in Entries :
           /\ crud_status(state, storage, Address(entry)) = Some("deleted")
                  => DeletionCommitted(entry)
           /\ (\E aw \in dispatched :
                  aw.action.type = "Commit"
                  /\ aw.action.entry = Deletion(Address(entry)))
                  => Deletion(Address(entry)) \in ValidEntries

\* C30 witness: all four steps of a Remove of entry1 have run and the
\* module has its result: the deletion entry is on the chain and entry1 is
\* deleted in the DHT store
C30_Witness ==
    /\ runtime.pc = "module"
    /\ runtime.result = Some(Ok(<<>>))
    /\ runtime.validated = Some(Ok(<<>>))
    /\ runtime.commit # None /\ runtime.remove # None
    /\ runtime.remove[1] \in state.history
    /\ DeletionCommitted(App("entry1"))
    /\ crud_status(state, storage, Address(App("entry1"))) = Some("deleted")

--------------------------------------------------------------------------
(* The Remove operation: how its failures reach the module *)

\* the results the reducers recorded for the actions the call awaits
CommitResult ==
    {a.result : a \in {a \in state.agent.actions :
                          runtime.commit # None /\ a.aw = runtime.commit[1]}}

RemoveResult ==
    {a.result : a \in {a \in state.dht.actions :
                          runtime.remove # None /\ a.aw = runtime.remove[1]}}

\* the errors of the steps of the running call that have failed
StepFailures ==
    {validated \in {runtime.validated[i] : i \in DOMAIN runtime.validated} :
         IsErr(validated)}
    \cup {result \in CommitResult : IsErr(result)}
    \cup {result \in RemoveResult : IsErr(result)}

\* the last result the host stored for the module and the word it returned
LastStored == runtime.stored[Len(runtime.stored)]
LastReturned == runtime.returned[Len(runtime.returned)]

\* the module was handed the handle of an allocation that holds the
\* serialized failure and its terminating zero byte
FailureThroughAllocation ==
    LET value == RibosomeEncodedValue(LastReturned)
    IN /\ LastStored.bits = LastReturned
       /\ LastStored.json = ZomeApiInternalResult(runtime.result[1])
       /\ value.kind = "Allocation"
       /\ ~IsErr(WasmAllocation_try_from(value))
       /\ read(runtime.memory_manager, value) = <<101, 114, 0>>

\* the memory had no room for the serialized failure, and the module was
\* handed the failure code Unspecified
FailureThroughCode ==
    /\ LastStored.bits = LastReturned
    /\ LastReturned = ribosome_error_code("Unspecified")
    /\ runtime.memory_manager.top + 3 > MaxMemory

\* the call has ended with a failed step
RemoveFailed ==
    /\ runtime.pc = "module"
    /\ runtime.result # None
    /\ IsErr(runtime.result[1])

\* C31 as stated: a failure of any step of the Remove operation reaches the
\* module as a serialized failure result written through an allocation
\* handle
C31_FailureThroughAllocation ==
    RemoveFailed => FailureThroughAllocation

\* C31: a failure of any step of the Remove operation (validation, commit,
\* DHT status update) is the result of the call, handed to the module
\* before the call returns as a serialized failure result behind an
\* allocation handle, or as the failure code Unspecified when the memory
\* has no room for it; when the failing step is validation, the call has
\* dispatched nothing: the deletion entry is not on the chain and the
\* target is not deleted in the DHT store
C31_FailureSurfaced ==
    /\ runtime.pc = "module" =>
           \A failure \in StepFailures : runtime.result = Some(failure)
    /\ RemoveFailed => FailureThroughAllocation \/ FailureThroughCode
    /\ (runtime.validated # None /\ IsErr(runtime.validated[1])) =>
           /\ runtime.commit = None /\ runtime.remove = None
           /\ ~CasContains(storage[state.agent.chain_store],
                           Address(runtime.deletion_entry[1]))
           /\ \A aw \in dispatched :
                  /\ aw.action.type = "Commit" =>
                         aw.action.entry # runtime.deletion_entry[1]
                  /\ aw.action.type = "RemoveEntry" =>
                         aw.action.deletion_address #
                             Address(runtime.deletion_entry[1])
           /\ crud_status(state, storage, runtime.address[1]) # Some("deleted")

\* C31 witness: the commit of the deletion entry failed on the chain store,
\* and the module holds the handle of the serialized failure
C31_Witness ==
    /\ RemoveFailed
    /\ \E result \in CommitResult : runtime.result = Some(result)
    /\ FailureThroughAllocation

--------------------------------------------------------------------------
(* The Remove operation on an entry that was updated *)

\* the address the module passed as the argument of the running call
PassedAddress ==
    Address_try_from(load_json_string_from_args(runtime.memory_manager,
                                                runtime.args[1]).json).ok

\* the entry at the first address is Modified and its CRUD link leads to
\* the second
UpdatedBy(old_address, new_address) ==
    /\ crud_status(state, storage, old_address) = Some("modified")
    /\ \E row \in storage[state.dht.meta_storage] :
           /\ row.entity = old_address /\ row.attribute = LINK_NAME
           /\ row.value = new_address

\* the node knows the entry at the address
Known(address) == get_entry(state, storage, address) # None

\* the second address is the first or a version known after it
VersionOf(address, version) ==
    \/ version = address
    \/ UpdatedBy(address, version) /\ Known(version)
    \/ \E between \in {Address(entry) : entry \in Entries} :
           /\ UpdatedBy(address, between) /\ Known(between)
           /\ UpdatedBy(between, version) /\ Known(version)

\* C32: the deletion entry built by the Remove operation references the
\* latest known version of the entry at the address the module passed (the
\* last known entry along the CRUD links from it at the time of the Get),
\* and the Commit and the RemoveEntry action of the call are about that
\* address and that deletion entry
C32_DeletionReferencesLatest ==
    [][/\ (runtime.pc = "get_entry_result" /\ runtime'.deletion_entry # None) =>
             LET latest == runtime'.address[1]
             IN /\ runtime'.deletion_entry = Some(Deletion(latest))
                /\ Known(latest)
                /\ VersionOf(PassedAddress, latest)
                /\ \A entry \in Entries :
                       ~(UpdatedBy(latest, Address(entry))
                           /\ Known(Address(entry)))
       /\ runtime'.commit # None =>
             /\ runtime'.commit[1].action.entry = Deletion(runtime'.address[1])
             /\ runtime'.commit[1].action.maybe_crud_link = runtime'.address
             /\ runtime'.address = runtime.address
       /\ runtime'.remove # None =>
             /\ runtime'.remove[1].action.deleted_address = runtime'.address[1]
             /\ runtime'.remove[1].action.deletion_address =
                    Address(Deletion(runtime'.address[1]))
             /\ runtime'.address = runtime.address]_vars

\* C32 witness: the module passed the address of entry2, which was updated
\* by entry1; the deletion entry that was committed references entry1, and
\* entry1 is the entry deleted in the DHT store
C32_Witness ==
    /\ runtime.pc = "module"
    /\ runtime.result = Some(Ok(<<>>))
    /\ PassedAddress = Address(App("entry2"))
    /\ runtime.address = Some(Address(App("entry1")))
    /\ UpdatedBy(Address(App("entry2")), Address(App("entry1")))
    /\ DeletionCommitted(App("entry1"))
    /\ crud_status(state, storage, Address(App("entry1"))) = Some("deleted")

--------------------------------------------------------------------------
(* The Remove operation called with an argument that is no Address *)

\* JSON texts that are no Address: null and the empty object
NoAddressTexts == {JsonNull, <<123, 125>>}

\* the argument word loads as one of these texts
LoadsNoAddress(r, encoded) ==
    LET loaded == load_json_string_from_args(r.memory_manager, encoded)
    IN "json" \in DOMAIN loaded /\ loaded.json \in NoAddressTexts

\* C33: invoke_remove_entry called with an argument that loads but does
\* not deserialize to an Address logs the argument and returns the failure
\* code ArgumentDeserializationFailed in the same step; no Get, validation
\* or commit is started, nothing is dispatched or stored for the module,
\* and the state and the storages of the node are unchanged
C33_NoAddressRefused ==
    [][(/\ Invokes
        /\ from_index(runtime'.index[1]) = "RemoveEntry"
        /\ LoadsNoAddress(runtime, runtime'.args[1])) =>
           /\ runtime'.pc = "module"
           /\ runtime'.returned =
                  Append(runtime.returned,
                         ribosome_error_code("ArgumentDeserializationFailed"))
           /\ Len(context_log') = Len(context_log) + 1
           /\ context_log'[Len(context_log')].prefix = "err/zome"
           /\ context_log'[Len(context_log')].args_str \in NoAddressTexts
           /\ runtime'.address = None /\ runtime'.deletion_entry = None
           /\ runtime'.validation = None /\ runtime'.validated = None
           /\ runtime'.commit = None /\ runtime'.remove = None
           /\ runtime'.result = None /\ runtime'.stored = runtime.stored
           /\ runtime'.memory_manager = runtime.memory_manager
           /\ UNCHANGED <<state, storage, sent, action_channel, dispatched,
                          next_id>>]_vars

\* C33 witness: the module passed the handle of the text {} to RemoveEntry
\* on a node that holds an entry, and was answered with
\* ArgumentDeserializationFailed after the line in the log
C33_Witness ==
    /\ runtime.pc = "module"
    /\ runtime.zf = Some("RemoveEntry")
    /\ RibosomeEncodedValue(runtime.args[1]).kind = "Allocation"
    /\ LoadsNoAddress(runtime, runtime.args[1])
    /\ runtime.returned # <<>>
    /\ LastReturned = ribosome_error_code("ArgumentDeserializationFailed")
    /\ context_log # <<>>
    /\ context_log[Len(context_log)].args_str = <<123, 125>>
    /\ storage[state.dht.content_storage] # {}

--------------------------------------------------------------------------
(* Storing a result in a memory that has no room *)

\* the host stores a result for the module in this step
Stores == Len(runtime'.stored) = Len(runtime.stored) + 1

\* the memory has no room for the text and its terminating byte
NoRoom(memory_manager, json) == memory_manager.top + Len(json) + 1 > MaxMemory

\* C34: when the memory has no room for a result, store_as_json_string
\* hands the module the failure code Unspecified and no allocation handle,
\* the memory is left as it was, and the call returns to the module
\* without a panic
C34_NoRoomIsUnspecified ==
    [][(Stores /\ NoRoom(runtime.memory_manager,
                         runtime'.stored[Len(runtime'.stored)].json)) =>
           /\ runtime'.stored[Len(runtime'.stored)].bits =
                  ribosome_error_code("Unspecified")
           /\ runtime'.returned =
                  Append(runtime.returned, ribosome_error_code("Unspecified"))
           /\ RibosomeEncodedValue(runtime'.returned[Len(runtime'.returned)])
                  = Failure("Unspecified")
           /\ runtime'.memory_manager = runtime.memory_manager
           /\ runtime'.pc = "module"]_vars

\* C34 witness: a Remove that went through all its steps found no room
\* for its result, and the module was handed Unspecified
C34_Witness ==
    /\ runtime.pc = "module"
    /\ runtime.result = Some(Ok(<<>>))
    /\ runtime.stored # <<>>
    /\ NoRoom(runtime.memory_manager, LastStored.json)
    /\ LastStored.bits = ribosome_error_code("Unspecified")
    /\ LastReturned = ribosome_error_code("Unspecified")

--------------------------------------------------------------------------
(* The Remove operation when the status update fails after the commit *)

\* the DHT reducer has recorded an error for the RemoveEntry action of the
\* call
StatusUpdateFailed(r, S) ==
    /\ r.remove # None
    /\ \E a \in S.dht.actions : a.aw = r.remove[1] /\ IsErr(a.result)

\* the deletion entry of the call is on the chain, under a header that is
\* reached from the top of the chain
DeletionOnChain(r, S, st) ==
    LET chain == iter_chain(S, st)
    IN /\ r.deletion_entry[1] \in st[S.agent.chain_store]
       /\ \E i \in DOMAIN chain :
              chain[i].entry_address = Address(r.deletion_entry[1])

\* C35: the Remove operation is not atomic across its commit and its status
\* update: the reduction in which the status update fails changes no
\* storage (the CRUD status of the target stays what it was) and leaves the
\* chain as the commit made it; from then on the deletion entry is on the
\* chain, and the call ends by handing the module a failure result
C35_NoRollback ==
    [][/\ (~StatusUpdateFailed(runtime, state)
           /\ StatusUpdateFailed(runtime', state')) =>
              /\ storage' = storage
              /\ state'.agent = state.agent
              /\ crud_status(state', storage', runtime'.address[1])
                     = crud_status(state, storage, runtime.address[1])
       /\ StatusUpdateFailed(runtime', state') =>
              DeletionOnChain(runtime', state', storage')
       /\ (StatusUpdateFailed(runtime, state)
           /\ runtime.pc = "remove_await" /\ runtime'.pc # "remove_await") =>
              /\ runtime'.pc = "module"
              /\ runtime'.result # None /\ IsErr(runtime'.result[1])
              /\ Len(runtime'.returned) = Len(runtime.returned) + 1
              /\ LastStored'.json = <<101, 114>>]_vars

\* C35 witness: entry1 was updated between the Get and the status update
\* of its removal; the deletion entry is on the chain, entry1 is Modified
\* and not Deleted, and the module has a failure result
C35_Witness ==
    /\ runtime.pc = "module"
    /\ StatusUpdateFailed(runtime, state)
    /\ runtime.result # None /\ IsErr(runtime.result[1])
    /\ runtime.address = Some(Address(App("entry1")))
    /\ DeletionOnChain(runtime, state, storage)
    /\ crud_status(state, storage, Address(App("entry1"))) = Some("modified")

--------------------------------------------------------------------------
(* The Remove operation on an entry the Get does not find *)

\* the node has the content under the address in neither of its stores, or
\* no CRUD status for it
NotOnNode(address) ==
    \/ /\ ~CasContains(storage[state.agent.chain_store], address)
       /\ ~CasContains(storage[state.dht.content_storage], address)
    \/ \A row \in storage[state.dht.meta_storage] :
           ~(row.entity = address /\ row.attribute = STATUS_NAME)

\* C36: when the Get of a Remove finds no entry at the target (the node
\* does not have it and the network has none or does not answer in time),
\* invoke_remove_entry returns the failure code Unspecified in that step
\* and builds no deletion entry: no validation, no commit and no status
\* update is started, nothing is dispatched or stored for the module, and
\* the state and the storages are unchanged
C36_NotFoundIsUnspecified ==
    [][(/\ runtime.pc = "get_entry_result"
        /\ runtime'.pc # "get_entry_result"
        /\ NotOnNode(runtime.address[1])) =>
           /\ runtime'.pc = "module"
           /\ runtime'.returned =
                  Append(runtime.returned, ribosome_error_code("Unspecified"))
           /\ runtime'.deletion_entry = None
           /\ runtime'.validation = None /\ runtime'.validated = None
           /\ runtime'.commit = None /\ runtime'.remove = None
           /\ runtime'.result = None /\ runtime'.stored = runtime.stored
           /\ UNCHANGED <<state, storage, action_channel, dispatched, next_id,
                          context_log>>]_vars

\* C36 witness: the module asked for the removal of entry1 on a node that
\* holds entry2 only, and was answered with Unspecified
C36_Witness ==
    /\ runtime.pc = "module"
    /\ runtime.zf = Some("RemoveEntry")
    /\ runtime.address = Some(Address(App("entry1")))
    /\ runtime.deletion_entry = None
    /\ LastReturned = ribosome_error_code("Unspecified")
    /\ NotOnNode(Address(App("entry1")))
    /\ ~NotOnNode(Address(App("entry2")))

--------------------------------------------------------------------------
(* The network slice under InitNetwork *)

\* the network slice has its handle, its dna_address and its agent_id
Initialised(network_state) ==
    /\ network_state.network # None
    /\ network_state.dna_address # None
    /\ network_state.agent_id # None

\* the network slice has none of the three
Uninitialised(network_state) ==
    /\ network_state.network = None
    /\ network_state.dna_address = None
    /\ network_state.agent_id = None

\* the reduction loop ends the reduction of an InitNetwork action
ReducesInit ==
    /\ reducing # None /\ reducing' = None
    /\ reducing[1].aw.action.type = "InitNetwork"

\* C37: reducing InitNetwork is all-or-nothing on the network slice: either
\* TrackDna went out through the new P2pNetwork and the handle of that
\* network, the dna_address and the agent_id of the settings are all set,
\* or no message went out and the slice is what it was; so the handle is
\* set exactly when dna_address and agent_id are
C37_InitAllOrNothing ==
    /\ [](Initialised(state.network) \/ Uninitialised(state.network))
    /\ [][ReducesInit =>
             LET settings == reducing[1].aw.action.settings
             IN \/ /\ state'.network = state.network
                   /\ sent' = sent
                \/ /\ networks' = networks + 1
                   /\ state'.network =
                          [network |-> Some(networks'),
                           dna_address |-> Some(settings.dna_address),
                           agent_id |-> Some(settings.agent_id)]
                   /\ sent' = Append(sent,
                                     [type |-> "TrackDna",
                                      dna_address |-> settings.dna_address,
                                      agent_id |-> settings.agent_id,
                                      via |-> networks'])]_vars

\* C37 witness: a first InitNetwork was reduced with its TrackDna sent, a
\* second one failed to send: the slice still has the handle and the
\* fields of the first, and one message went out
C37_Witness ==
    /\ networks = 2
    /\ Len(sent) = 1
    /\ state.network.network = Some(1)
    /\ Initialised(state.network)
    /\ Cardinality({aw \in state.history : aw.action.type = "InitNetwork"}) = 2

--------------------------------------------------------------------------
(* handle_store_meta and the length of the content list *)

\* C38: handle_store_meta starts a workflow only for a "link" or a
\* "link_remove" message whose content list holds exactly one item; a link
\* message with a content list of any other length panics the thread of
\* the bridge on the assertion: no thread is spawned, nothing is
\* dispatched, and the state, the storages and the workflows are unchanged
C38_OneItemOrPanic ==
    [][MetaHandled =>
          LET dht_meta_data == bridge'.last[1]
              tag == dht_meta_data.attribute
              length == Len(dht_meta_data.content_list)
          IN /\ Started # {} =>
                   tag \in {"link", "link_remove"} /\ length = 1
             /\ (tag \in {"link", "link_remove"} /\ length # 1) =>
                   /\ bridge'.panicked
                   /\ bridge'.joins = bridge.joins
                   /\ wf' = wf
                   /\ action_channel' = action_channel
                   /\ dispatched' = dispatched
                   /\ state' = state /\ storage' = storage
                   /\ sent' = sent]_vars

\* C38 witness: after a "link" message with one item started its workflow,
\* a "link_remove" message with two items panicked the bridge, and no
\* second workflow was started
C38_Witness ==
    /\ bridge.handled = 2
    /\ bridge.panicked
    /\ bridge.last[1].attribute = "link_remove"
    /\ Len(bridge.last[1].content_list) = 2
    /\ wf[1].pc # "idle" /\ wf[1].workflow = "hold_link"
    /\ \A w \in Workflows \ {1} : wf[w].pc = "idle"

--------------------------------------------------------------------------
(* C39: absent contents and errors in get_headers *)

\* the addresses that the DHT metadata store refers to as headers of the
\* entry and that no header of the local chain about the entry has
Wanted(X) ==
    {row.value : row \in {r \in storage[state.dht.meta_storage] :
                              r.entity = X /\ r.attribute = "entry-header"}}
    \ {Address(header) : header \in {h \in StoredHeaders :
                                         OnChain(h) /\ h.entry_address = X}}

\* the DHT content store has no content under the address
NotHeldInDht(address) ==
    \A content \in storage[state.dht.content_storage] : Address(content) # address

\* the DHT content store has a content under the address that is no header
NoHeaderInDht(address) ==
    \E content \in storage[state.dht.content_storage] :
        Address(content) = address /\ "provenance" \notin DOMAIN content

\* the metadata query of the DHT store fails
QueryFails == Fault(state.dht.meta_storage, "fetch_eavi") \in faults

\* the fetches from the DHT content store fail
FetchFails == Fault(state.dht.content_storage, "fetch") \in faults

\* get_headers(X) meets an error: of the metadata query, of a content
\* fetch, or of decoding a content that it fetched
MeetsError(X) ==
    \/ QueryFails
    \/ FetchFails /\ Wanted(X) # {}
    \/ \E address \in Wanted(X) : NoHeaderInDht(address)

\* the headers that get_headers(X) is to give beyond those of the chain:
\* what the content store holds under the addresses wanted
HeldForWanted(X) ==
    {content \in storage[state.dht.content_storage] : Address(content) \in Wanted(X)}

\* C39: in get_headers a reference of the DHT metadata store to a header
\* whose content is absent from the DHT content store is skipped silently:
\* the call returns Ok with the headers of the chain and the headers whose
\* content is held, and nothing for the absent one. An error of the metadata
\* query, of a content fetch or of decoding a header makes the whole call
\* return an error, with no list
C39_AbsentSkippedErrorsReturned ==
    \A X \in Queried :
        LET result == get_headers(state, storage, X)
        IN IF MeetsError(X)
           THEN IsErr(result)
           ELSE /\ ~IsErr(result)
                /\ {result.ok[i] : i \in 1..Len(result.ok)}
                      = {h \in StoredHeaders : OnChain(h) /\ h.entry_address = X}
                        \cup HeldForWanted(X)
                /\ \A i \in 1..Len(result.ok) :
                      ~NotHeldInDht(Address(result.ok[i])) \/ OnChain(result.ok[i])

\* C39 witness: the rows of the entry refer to a header that the content
\* store holds and to one that it does not hold, and the call returns the
\* first alone
C39_Witness ==
    LET X      == Address(App("entry1"))
        result == get_headers(state, storage, X)
    IN /\ ~MeetsError(X)
       /\ \E address \in Wanted(X) : NotHeldInDht(address)
       /\ HeldForWanted(X) # {}
       /\ ~IsErr(result)
       /\ Len(result.ok) = Cardinality(HeldForWanted(X))

--------------------------------------------------------------------------
(* C40: the running mark and the shutdown signal of a StaticServer *)

\* the step is a call of start or of stop that returns
ServerCall(call) ==
    /\ server'.calls = server.calls + 1
    /\ server'.result # None
    /\ server'.result[1].call = call

\* what the call of the step returned
Returned == server'.result[1].returned

\* the server holds a shutdown signal before the step
HoldsSignal == server.static_server.shutdown_signal # None

\* the thread that would receive the server's shutdown signal has not ended
SignalReceivable ==
    server.threads[server.static_server.shutdown_signal[1]]
        \in {"spawned", "waiting"}

\* the step leaves the server marked not running and without a signal
ClearsBoth ==
    /\ ~server'.static_server.running
    /\ server'.static_server.shutdown_signal = None

\* the step puts the unit into the channel of the signal that the server held
SendsSignal ==
    server'.messages
        = server.messages \cup {server.static_server.shutdown_signal[1]}

\* the step changes neither the server nor what its channels hold
ChangesNothing ==
    /\ server'.static_server = server.static_server
    /\ server'.messages = server.messages
    /\ server'.threads = server.threads

\* C40 as stated: the server is marked running exactly when it holds a
\* shutdown signal, start sets both, every stop that finds a signal sends
\* it, clears both and returns Ok, and a stop with no signal returns the
\* error "server is already stopped" and changes nothing
C40_StopWithSignalIsOk ==
    /\ [](server.static_server.running
            <=> server.static_server.shutdown_signal # None)
    /\ [][/\ ServerCall("start") =>
               /\ server'.static_server.running
               /\ server'.static_server.shutdown_signal # None
          /\ (ServerCall("stop") /\ HoldsSignal) =>
               /\ SendsSignal /\ ClearsBoth
               /\ Returned = Ok("unit")
          /\ (ServerCall("stop") /\ ~HoldsSignal) =>
               /\ Returned = Err(ErrorGeneric("server is already stopped"))
               /\ ChangesNothing]_vars

\* C40: for any sequence of start and stop calls on a StaticServer, the
\* server is marked running exactly when it holds a shutdown signal: start
\* sets both and returns Ok; a stop that finds a signal whose receiving
\* thread has not ended sends it, clears both and returns Ok; a stop that
\* finds a signal whose receiving thread has ended returns the error of the
\* send and changes nothing; a stop with no signal returns the error
\* "server is already stopped" and changes nothing
C40_RunningIffSignal ==
    /\ [](server.static_server.running
            <=> server.static_server.shutdown_signal # None)
    /\ [][/\ ServerCall("start") =>
               /\ server'.static_server.running
               /\ server'.static_server.shutdown_signal # None
               /\ server'.static_server.shutdown_signal
                     # server.static_server.shutdown_signal
               /\ Returned = Ok("unit")
          /\ (ServerCall("stop") /\ HoldsSignal) =>
               IF SignalReceivable
               THEN /\ SendsSignal /\ ClearsBoth
                    /\ Returned = Ok("unit")
               ELSE /\ IsErr(Returned)
                    /\ Returned # Err(ErrorGeneric("server is already stopped"))
                    /\ ChangesNothing
          /\ (ServerCall("stop") /\ ~HoldsSignal) =>
               /\ Returned = Err(ErrorGeneric("server is already stopped"))
               /\ ChangesNothing]_vars

\* C40 witness: the thread of the started server panicked, a stop found the
\* signal and returned the error of the send, and the server is still
\* marked running and holds the signal
C40_Witness ==
    /\ server.result # None
    /\ server.result[1].call = "stop"
    /\ IsErr(server.result[1].returned)
    /\ server.static_server.running
    /\ server.static_server.shutdown_signal # None
    /\ server.threads[server.static_server.shutdown_signal[1]] = "panicked"
====
